---- MODULE Spec2Model ----
(***************************************************************************)
(* antigravity-acp: the ACP server (acp-server.ts), its Session Store      *)
(* (session.ts), the stream adapter (stream-adapter.ts) and the backend    *)
(* client's streamGenerateContent (antigravity-client.ts).                 *)
(*                                                                         *)
(* Node runs every handler on one thread.  A handler runs without          *)
(* interruption until it awaits I/O; the only awaits on I/O of a turn are  *)
(* inside streamGenerateContent (ensureToken, fetch, reader.read), and all *)
(* of them come before the first event is yielded.  A turn is therefore    *)
(* three steps: the synchronous start, the token step, and the step that   *)
(* receives the whole response body and drains every event of it.          *)
(*                                                                         *)
(* Strings are sequences of characters, so that concatenation is \o.       *)
(* A JS object is a record; "'k' in o" is  "k" \in DOMAIN o.               *)
(***************************************************************************)
EXTENDS Integers, Sequences, FiniteSets, TLC

\* ------------------------------------------------------------------ bounds
MaxSessions == 1       \* sessions created in one run
MaxTurns == 2          \* turns started in one run of Spec
MaxDetailTurns == 1    \* turns started in one run of SpecTurn
MaxFrontTurns == 2     \* turns started in one run of SpecFront
MaxCloseTurns == 2     \* turns started in one run of SpecClose
MaxStoreOps == 4       \* Session Store calls in one run of SpecStore

\* ------------------------------------------------------------------ values
Null == 0

EmptyText == << >>

Min(S) == CHOOSE x \in S : \A y \in S : x <= y

\* ------------------------------------------------------ Session Store (pure)
DEFAULT_MODEL == <<"g">>

NoSessions == [i \in {} |-> 0]

\* createSession: the record stored under the fresh id
NewSessionState(id, config, defaultModel) ==
  [ id |-> id,
    model |-> IF "model" \in DOMAIN config /\ config.model # EmptyText
              THEN config.model ELSE defaultModel,
    systemInstruction |->
      IF "systemInstruction" \in DOMAIN config /\ config.systemInstruction # EmptyText
      THEN config.systemInstruction
      ELSE IF "systemPrompt" \in DOMAIN config THEN config.systemPrompt ELSE EmptyText,
    tools |-> IF "tools" \in DOMAIN config THEN config.tools ELSE << >>,
    contents |-> << >>,
    abortController |-> Null ]

createSession(S, id, config, defaultModel) ==
  [i \in DOMAIN S \cup {id} |->
     IF i = id THEN NewSessionState(id, config, defaultModel) ELSE S[i]]

HasSession(S, sessionId) == sessionId \in DOMAIN S

\* mutant: an unknown id gets a session made for it
addUserMessageUpsert(S, sessionId, text) ==
  [i \in DOMAIN S \cup {sessionId} |->
     IF i = sessionId
     THEN [ (IF HasSession(S, sessionId) THEN S[sessionId]
             ELSE NewSessionState(sessionId, [x \in {} |-> 0], DEFAULT_MODEL))
            EXCEPT !.contents = Append(@, [role |-> "user", parts |-> << [text |-> text] >>]) ]
     ELSE S[i]]

addUserMessage(S, sessionId, text) ==
  IF ~HasSession(S, sessionId) THEN S
  ELSE [S EXCEPT ![sessionId].contents =
          Append(@, [role |-> "user", parts |-> << [text |-> text] >>])]

\* (p): p is { text: string } => 'text' in p && !('thought' in p)
IsTextPart(p) == "text" \in DOMAIN p /\ ~("thought" \in DOMAIN p)

TextPartIndexes(content) ==
  {i \in 1..Len(content.parts) : IsTextPart(content.parts[i])}

\* mutant: every call opens a new model element
addAssistantMessageNoMerge(S, sessionId, text) ==
  IF ~HasSession(S, sessionId) THEN S
  ELSE [S EXCEPT ![sessionId].contents =
          Append(@, [role |-> "model", parts |-> << [text |-> text] >>])]

addAssistantMessage(S, sessionId, text) ==
  IF ~HasSession(S, sessionId) THEN S
  ELSE LET c == S[sessionId].contents
           n == Len(c)
       IN IF n > 0 /\ c[n].role = "model" /\ TextPartIndexes(c[n]) # {}
          THEN LET i == Min(TextPartIndexes(c[n]))
               IN [S EXCEPT ![sessionId].contents[n].parts[i].text = @ \o text]
          ELSE [S EXCEPT ![sessionId].contents =
                  Append(@, [role |-> "model", parts |-> << [text |-> text] >>])]

addToolCall(S, sessionId, functionCall) ==
  IF ~HasSession(S, sessionId) THEN S
  ELSE LET c == S[sessionId].contents
           n == Len(c)
       IN IF n > 0 /\ c[n].role = "model"
          THEN [S EXCEPT ![sessionId].contents[n].parts =
                  Append(@, [functionCall |-> functionCall])]
          ELSE [S EXCEPT ![sessionId].contents =
                  Append(@, [role |-> "model",
                             parts |-> << [functionCall |-> functionCall] >>])]

\* A tool result value is tagged with its JS typeof.
IsString(v) == v.typeof = "string"

\* mutant: every result is wrapped, an object too
NormalizeResultAlways(result) == [output |-> result.value]

NormalizeResult(result) ==
  IF IsString(result) THEN [output |-> result.value] ELSE result.value

\* mutant: the tool result is put in front of the history
addToolResultInFront(S, sessionId, callId, name, result) ==
  IF ~HasSession(S, sessionId) THEN S
  ELSE [S EXCEPT ![sessionId].contents =
          << [role |-> "user",
              parts |-> << [functionResponse |->
                              [name |-> name, response |-> NormalizeResult(result),
                               id |-> callId]] >>] >> \o @]

addToolResult(S, sessionId, callId, name, result) ==
  IF ~HasSession(S, sessionId) THEN S
  ELSE [S EXCEPT ![sessionId].contents =
          Append(@, [role |-> "user",
                     parts |-> << [functionResponse |->
                                     [name |-> name,
                                      response |-> NormalizeResult(result),
                                      id |-> callId]] >>])]

\* mutant: a live handle is not replaced
setAbortControllerIfFree(S, sessionId, controller) ==
  IF HasSession(S, sessionId)
     /\ (controller = Null \/ S[sessionId].abortController = Null)
  THEN [S EXCEPT ![sessionId].abortController = controller]
  ELSE S

setAbortController(S, sessionId, controller) ==
  IF HasSession(S, sessionId)
  THEN [S EXCEPT ![sessionId].abortController = controller]
  ELSE S

\* mutant: the handle is aborted but stays in the store
cancelSessionKeepsHandle(S, ab, sessionId) ==
  IF HasSession(S, sessionId) /\ S[sessionId].abortController # Null
  THEN [ sessions |-> S,
         aborted |-> ab \cup {S[sessionId].abortController},
         ret |-> TRUE ]
  ELSE [ sessions |-> S, aborted |-> ab, ret |-> FALSE ]

\* cancelSession: the store after it, the controllers aborted after it, its result
cancelSession(S, ab, sessionId) ==
  IF HasSession(S, sessionId) /\ S[sessionId].abortController # Null
  THEN [ sessions |-> [S EXCEPT ![sessionId].abortController = Null],
         aborted |-> ab \cup {S[sessionId].abortController},
         ret |-> TRUE ]
  ELSE [ sessions |-> S, aborted |-> ab, ret |-> FALSE ]

getContents(S, sessionId) ==
  IF HasSession(S, sessionId) THEN S[sessionId].contents ELSE << >>

\* mutant: the live handles are aborted but sessions.clear() is missing
clearKeepsSessions(S, ab) ==
  [ sessions |-> S,
    aborted |-> ab \cup ({ S[i].abortController : i \in DOMAIN S } \ {Null}) ]

\* clear: the controllers aborted after it (the store after it is NoSessions)
clear(S, ab) ==
  [ sessions |-> NoSessions,
    aborted |-> ab \cup {S[i].abortController : i \in {j \in DOMAIN S : S[j].abortController # Null}} ]

\* ------------------------------------------------------------ stream adapter
\* createStreamAdapter: messageIndex = 0, accumulatedText = '', no tool call id
NewAdapter ==
  [ messageIndex |-> 0, accumulatedText |-> EmptyText, currentToolCallId |-> "" ]

createNotification(sessionId, update) ==
  [ jsonrpc |-> "2.0", method |-> "sessionUpdate",
    params |-> [sessionId |-> sessionId, update |-> update] ]

createMessageChunk(adapter, sessionId, text) ==
  [ type |-> "agent_message_chunk", kind |-> "message",
    messageId |-> <<"msg", sessionId, adapter.messageIndex>>,
    index |-> adapter.messageIndex, chunk |-> text ]

createThoughtChunk(adapter, sessionId, text) ==
  [ type |-> "agent_thought_chunk", kind |-> "thought",
    thoughtId |-> <<"thought", sessionId, adapter.messageIndex>>,
    index |-> adapter.messageIndex, chunk |-> text ]

\* functionCall.id || `call_${sessionId}_${Date.now()}`
SynthCallId == "call_session_now"

CallIdOf(functionCall) ==
  IF "id" \in DOMAIN functionCall /\ functionCall.id # ""
  THEN functionCall.id ELSE SynthCallId

\* the adapter is created without a catalogue, so the tool is always the
\* minimal definition
createToolCall(functionCall) ==
  [ type |-> "tool_call", kind |-> "tool_call",
    callId |-> CallIdOf(functionCall),
    tool |-> [name |-> functionCall.name, description |-> "",
              inputSchema |-> [type |-> "object"]],
    input |-> IF "args" \in DOMAIN functionCall THEN functionCall.args ELSE "{}" ]

createSessionComplete(reason) ==
  [ type |-> "session_complete", kind |-> "finish", reason |-> reason ]

createSessionError(message, code) ==
  [ type |-> "session_error", kind |-> "error",
    error |-> [code |-> code, message |-> message] ]

IsThoughtPart(part) == "thought" \in DOMAIN part /\ part.thought

IsMessagePart(part) ==
  "text" \in DOMAIN part /\ part.text # EmptyText /\ ~("thought" \in DOMAIN part)

IsCallPart(part) == "functionCall" \in DOMAIN part

\* mutant: thought text is accumulated like message text
ProcessPartThoughtKept(st, sessionId, part) ==
  IF IsThoughtPart(part)
  THEN [ adapter |-> [st.adapter EXCEPT
                        !.messageIndex = @ + 1,
                        !.accumulatedText =
                           @ \o (IF "text" \in DOMAIN part THEN part.text ELSE EmptyText)],
         notes |-> Append(st.notes,
                     createNotification(sessionId,
                       createThoughtChunk(st.adapter, sessionId,
                         IF "text" \in DOMAIN part THEN part.text ELSE EmptyText))) ]
  ELSE IF IsMessagePart(part)
  THEN [ adapter |-> [st.adapter EXCEPT !.messageIndex = @ + 1,
                                        !.accumulatedText = @ \o part.text],
         notes |-> Append(st.notes,
                     createNotification(sessionId,
                       createMessageChunk(st.adapter, sessionId, part.text))) ]
  ELSE IF IsCallPart(part)
  THEN [ adapter |-> [st.adapter EXCEPT !.currentToolCallId = CallIdOf(part.functionCall)],
         notes |-> Append(st.notes,
                     createNotification(sessionId, createToolCall(part.functionCall))) ]
  ELSE st

\* one part: the adapter after it and the notifications it adds
ProcessPart(st, sessionId, part) ==
  IF IsThoughtPart(part)
  THEN [ adapter |-> [st.adapter EXCEPT !.messageIndex = @ + 1],
         notes |-> Append(st.notes,
                     createNotification(sessionId,
                       createThoughtChunk(st.adapter, sessionId,
                         IF "text" \in DOMAIN part THEN part.text ELSE EmptyText))) ]
  ELSE IF IsMessagePart(part)
  THEN [ adapter |-> [st.adapter EXCEPT !.messageIndex = @ + 1,
                                        !.accumulatedText = @ \o part.text],
         notes |-> Append(st.notes,
                     createNotification(sessionId,
                       createMessageChunk(st.adapter, sessionId, part.text))) ]
  ELSE IF IsCallPart(part)
  THEN [ adapter |-> [st.adapter EXCEPT !.currentToolCallId = CallIdOf(part.functionCall)],
         notes |-> Append(st.notes,
                     createNotification(sessionId, createToolCall(part.functionCall))) ]
  ELSE st

RECURSIVE ProcessParts(_, _, _, _)
ProcessParts(st, sessionId, parts, i) ==
  IF i > Len(parts) THEN st
  ELSE ProcessParts(ProcessPart(st, sessionId, parts[i]), sessionId, parts, i + 1)

FinishUpdates(sessionId, finishReason) ==
  IF finishReason = "STOP"
  THEN << createNotification(sessionId, createSessionComplete("end_turn")) >>
  ELSE IF finishReason = "TOOL_USE"
  THEN << createNotification(sessionId, createSessionComplete("tool_use")) >>
  ELSE IF finishReason = "SAFETY"
  THEN << createNotification(sessionId,
            createSessionError("Content blocked by safety filters", "SAFETY_BLOCK")) >>
  ELSE IF finishReason = "MAX_TOKENS"
  THEN << createNotification(sessionId, createSessionComplete("max_tokens")) >>
  ELSE << >>

\* one candidate; a candidate without parts is skipped, finish marker included
ProcessCandidate(st, sessionId, candidate) ==
  IF Len(candidate.parts) = 0 THEN st
  ELSE LET after == ProcessParts(st, sessionId, candidate.parts, 1)
       IN [ adapter |-> after.adapter,
            notes |-> after.notes \o FinishUpdates(sessionId, candidate.finishReason) ]

RECURSIVE ProcessCandidates(_, _, _, _)
ProcessCandidates(st, sessionId, candidates, i) ==
  IF i > Len(candidates) THEN st
  ELSE ProcessCandidates(ProcessCandidate(st, sessionId, candidates[i]),
                         sessionId, candidates, i + 1)

\* processEvent: [adapter, notes], the adapter after the event and the
\* notifications of this event, in order
processEvent(adapter, sessionId, event) ==
  ProcessCandidates([adapter |-> adapter, notes |-> << >>], sessionId,
                    event.candidates, 1)

getAccumulatedText(adapter) == adapter.accumulatedText

\* ------------------------------------------------------------- inputs
\* configs a newSession request may carry
Configs ==
  { [x \in {} |-> 0],
    [model |-> <<"m">>, systemInstruction |-> <<"s">>, tools |-> <<"t1">>] }

\* params.messages of a prompt: role and content of each message; the content
\* is a string or an array of content blocks (tagged with what it is)
StringContent(text) == [typeof |-> "string", value |-> text]

BlocksContent(blocks) == [typeof |-> "object", value |-> blocks]

UserMessage(text) == [role |-> "user", content |-> StringContent(text)]

AssistantMessage(text) == [role |-> "assistant", content |-> StringContent(text)]

MessageLists ==
  { << >>,
    << UserMessage(<<"h", "i">>) >>,
    << UserMessage(<<"h">>), AssistantMessage(<<"q">>), UserMessage(<<"i">>) >> }

\* params of a toolResult: callId, tool name, result (tagged with its typeof)
ToolResults ==
  { [callId |-> "c1", name |-> "read_file",
     result |-> [typeof |-> "string", value |-> <<"o">>]],
    [callId |-> "c1", name |-> "read_file",
     result |-> [typeof |-> "object", value |-> [content |-> <<"o">>]]] }

\* parts a backend candidate may carry
TextX == [text |-> <<"x">>]
TextY == [text |-> <<"y">>]
ThoughtZ == [text |-> <<"z">>, thought |-> TRUE]
Call1 == [functionCall |-> [name |-> "read_file", args |-> "a", id |-> "c1"]]
CallNoId == [functionCall |-> [name |-> "write_file", args |-> "b"]]

Event(parts, finishReason) ==
  [candidates |-> << [parts |-> parts, finishReason |-> finishReason] >>]

\* What the backend call delivers once the body has been read: the events
\* the generator yields, then either its normal end (error = "none") or an
\* exception that is not an AbortError, with its message.
Body(events, error, message) ==
  [events |-> events, error |-> error, message |-> message]

\* every one-event stream with one tool call, a tool-use marker and at most
\* one more text or thought part
ToolUseBodies ==
  { Body(<< Event(ps, "TOOL_USE") >>, "none", "") :
      ps \in { << Call1 >>, << TextX, Call1 >>, << Call1, TextX >>,
               << ThoughtZ, Call1 >>, << Call1, ThoughtZ >>, << CallNoId >> } }

Bodies ==
  ToolUseBodies \cup
  { Body(<< Event(<< TextX >>, "STOP") >>, "none", ""),
    Body(<< Event(<< TextX >>, ""), Event(<< TextY >>, "STOP") >>, "none", ""),
    Body(<< >>, "none", ""),
    Body(<< >>, "Error", "API error 500"),
    Body(<< >>, "Error", ""),
    Body(<< Event(<< TextX >>, "") >>, "Error", "bad item"),
    Body(<< Event(<< Call1 >>, ""), Event(<< CallNoId, Call1 >>, "TOOL_USE") >>,
         "none", "") }

\* ------------------------------------------------------------- ACP server
VARIABLES
  options,            \* createAcpServer(options): [auth: is options.auth given]
  initialized,        \* let initialized
  antigravityClient,  \* antigravityClient !== null
  sessions,           \* the Session Store's map: id -> SessionState
  aborted,            \* the AbortControllers whose abort() has been called
  turns,              \* the prompt / toolResult handlers in flight
  initLoading,        \* initialize handlers awaiting loadAuthFromConfig()
  pendingRequests,    \* start(): let pendingRequests
  closing,            \* start(): let closing
  exited,             \* process.exit(0) was called
  nextSession,        \* sessions created so far (ids are fresh)
  nextTurn,           \* turns started so far (a turn's controller is its number)
  storeOps,           \* Session Store calls made directly (SpecStore)
  last                \* the handler step taken last, with the lines it wrote

vars == << options, initialized, antigravityClient, sessions, aborted, turns,
           initLoading, pendingRequests, closing, exited, nextSession, nextTurn,
           storeOps, last >>

ERR_PARSE == -32700
ERR_METHOD_NOT_FOUND == -32601
ERR_NOT_INITIALIZED == -32002
ERR_APP == -32001
ERR_INTERNAL == -32000

\* the id of requests that are answered without awaiting
SyncIds == {90}

NoBody == Body(<< >>, "none", "")

EmptyObject == [x \in {} |-> 0]

ResultResponse(id, result) == [jsonrpc |-> "2.0", id |-> id, result |-> result]

sendError(id, code, message) ==
  [jsonrpc |-> "2.0", id |-> id, error |-> [code |-> code, message |-> message]]

\* mutant: the missing backend is reported as a missing handshake
AuthRequiredAsNotInitialized(id) ==
  sendError(id, ERR_NOT_INITIALIZED, "Server not initialized")

AuthRequiredResponse(id) ==
  [jsonrpc |-> "2.0", id |-> id,
   error |-> [code |-> ERR_APP, message |-> "Authentication required",
              data |-> [type |-> "authRequired"]]]

IsNotification(line) == "method" \in DOMAIN line
IsResponse(line) == "id" \in DOMAIN line
IsErrorResponse(line) == IsResponse(line) /\ "error" \in DOMAIN line
IsResultResponse(line) == IsResponse(line) /\ "result" \in DOMAIN line

\* what `last` records of a handler step
\* what a step that calls fetch hands to it; every other step hands nothing
NoRequest == [x \in {} |-> 0]

Step(method, id, sessionId, phase, turn, outcome, body, out) ==
  [ method |-> method, id |-> id, sessionId |-> sessionId, phase |-> phase,
    turn |-> turn, outcome |-> outcome, body |-> body, out |-> out,
    request |-> NoRequest ]

Init ==
  /\ options \in [auth : BOOLEAN]
  /\ initialized = FALSE
  /\ antigravityClient = FALSE
  /\ sessions = NoSessions
  /\ aborted = {}
  /\ turns = [t \in {} |-> 0]
  /\ initLoading = 0
  /\ pendingRequests = 0
  /\ closing = FALSE
  /\ exited = FALSE
  /\ nextSession = 0
  /\ nextTurn = 0
  /\ storeOps = 0
  /\ last = Step("none", Null, Null, "return", Null, "none", NoBody, << >>)

\* mutant: the finally gives the count back but does not call maybeExit
LineDoneNoExit(S, ab, n) ==
  [ sessions |-> S, aborted |-> ab, pendingRequests |-> n - 1, exited |-> exited ]

\* mutant: maybeExit tears down as soon as the input is closed
LineDoneEager(S, ab, n) ==
  IF closing
  THEN [ sessions |-> clear(S, ab).sessions, aborted |-> clear(S, ab).aborted,
         pendingRequests |-> n - 1, exited |-> TRUE ]
  ELSE [ sessions |-> S, aborted |-> ab, pendingRequests |-> n - 1, exited |-> exited ]

\* start(): finally { pendingRequests--; maybeExit() } of a line handler that
\* ends with n requests counted, store S and aborted controllers ab
LineDone(S, ab, n) ==
  IF closing /\ n - 1 = 0
  THEN [ sessions |-> clear(S, ab).sessions, aborted |-> clear(S, ab).aborted,
         pendingRequests |-> n - 1, exited |-> TRUE ]
  ELSE [ sessions |-> S, aborted |-> ab, pendingRequests |-> n - 1, exited |-> exited ]

\* a line handler that runs to its end without awaiting
SyncHandler(S, ab, step) ==
  LET d == LineDone(S, ab, pendingRequests + 1)
  IN /\ sessions' = d.sessions
     /\ aborted' = d.aborted
     /\ pendingRequests' = d.pendingRequests
     /\ exited' = d.exited
     /\ last' = step

\* a line arrives: the process runs and the input is still open
LineArrives == ~exited /\ ~closing

\* ------------------------------------------------------------ handlers
\* handleInitialize with options.auth given: no await
InitializeSync(id) ==
  /\ LineArrives
  /\ ~(initialized /\ antigravityClient)
  /\ options.auth
  /\ antigravityClient' = TRUE
  /\ initialized' = TRUE
  /\ SyncHandler(sessions, aborted,
       Step("initialize", id, Null, "return", Null, "none", NoBody,
            << ResultResponse(id, [protocolVersion |-> 1]) >>))
  /\ UNCHANGED << options, turns, initLoading, closing, nextSession, nextTurn, storeOps >>

\* handleInitialize without options.auth: awaits loadAuthFromConfig()
InitializeStart(id) ==
  /\ LineArrives
  /\ ~(initialized /\ antigravityClient)
  /\ ~options.auth
  /\ initLoading = 0
  /\ initLoading' = initLoading + 1
  /\ pendingRequests' = pendingRequests + 1
  /\ last' = Step("initialize", id, Null, "await", Null, "none", NoBody, << >>)
  /\ UNCHANGED << options, initialized, antigravityClient, sessions, aborted, turns,
                  closing, exited, nextSession, nextTurn, storeOps >>

\* loadAuthFromConfig() settles: credentials, none, or an exception, which
\* start()'s catch answers as a parse error
InitializeLoaded(id, loaded) ==
  /\ ~exited
  /\ initLoading > 0
  /\ initLoading' = initLoading - 1
  /\ antigravityClient' = IF loaded = "auth" THEN TRUE ELSE antigravityClient
  /\ initialized' = IF loaded = "throw" THEN initialized ELSE TRUE
  /\ LET d == LineDone(sessions, aborted, pendingRequests)
     IN /\ sessions' = d.sessions
        /\ aborted' = d.aborted
        /\ pendingRequests' = d.pendingRequests
        /\ exited' = d.exited
  /\ last' = Step("initialize", id, Null, "return", Null, loaded, NoBody,
                  IF loaded = "throw"
                  THEN << sendError(Null, ERR_PARSE, "Parse error") >>
                  ELSE << ResultResponse(id, [protocolVersion |-> 1]) >>)
  /\ UNCHANGED << options, turns, closing, nextSession, nextTurn, storeOps >>

handleNewSession(id, config, maxSessions) ==
  /\ LineArrives
  /\ IF ~initialized
     THEN /\ SyncHandler(sessions, aborted,
               Step("newSession", id, Null, "return", Null, "none", NoBody,
                    << sendError(id, ERR_NOT_INITIALIZED, "Server not initialized") >>))
          /\ UNCHANGED nextSession
     ELSE IF ~antigravityClient
     THEN /\ SyncHandler(sessions, aborted,
               Step("newSession", id, Null, "return", Null, "none", NoBody,
                    << AuthRequiredResponse(id) >>))
          /\ UNCHANGED nextSession
     ELSE /\ nextSession < maxSessions
          /\ nextSession' = nextSession + 1
          /\ SyncHandler(createSession(sessions, nextSession + 1, config, DEFAULT_MODEL),
               aborted,
               Step("newSession", id, nextSession + 1, "return", Null, "none", NoBody,
                    << ResultResponse(id, [sessionId |-> nextSession + 1]) >>))
  /\ UNCHANGED << options, initialized, antigravityClient, turns, initLoading, closing,
                  nextTurn, storeOps >>

\* params.messages.filter(user).map(content).join('\n')
RECURSIVE JoinLines(_)
JoinLines(texts) ==
  IF Len(texts) = 0 THEN EmptyText
  ELSE IF Len(texts) = 1 THEN texts[1]
  ELSE texts[1] \o <<"\n">> \o JoinLines(Tail(texts))

\* JSON.stringify of an array of content blocks, the texts kept as they are
\* between the fixed pieces of the JSON text
RECURSIVE StringifyBlocks(_, _)
StringifyBlocks(blocks, i) ==
  IF i > Len(blocks) THEN EmptyText
  ELSE (IF i > 1 THEN <<",">> ELSE EmptyText)
       \o <<"{\"type\":\"", blocks[i].type, "\",\"text\":\"">> \o blocks[i].text \o <<"\"}">>
       \o StringifyBlocks(blocks, i + 1)

JSONStringify(blocks) == <<"[">> \o StringifyBlocks(blocks, 1) \o <<"]">>

\* typeof m.content === 'string' ? m.content : JSON.stringify(m.content)
ContentText(content) ==
  IF IsString(content) THEN content.value ELSE JSONStringify(content.value)

\* mutant: the messages of every role are joined
UserTextOfAllRoles(messages) ==
  JoinLines([i \in 1..Len(messages) |-> ContentText(messages[i].content)])

UserTextOf(messages) ==
  JoinLines([i \in 1..Len(SelectSeq(messages, LAMBDA m : m.role = "user")) |->
               ContentText(SelectSeq(messages, LAMBDA m : m.role = "user")[i].content)])

\* the process-wide default catalogue (options.tools || ACP_TOOLS), a tool
\* standing for its name
ACP_TOOLS ==
  << "read_file", "write_file", "edit_file", "list_directory", "search_files",
     "search_content", "execute_command" >>

acpToolsToFunctionDeclarations(tools) ==
  [i \in 1..Len(tools) |-> [name |-> tools[i]]]

\* the argument of streamGenerateContent, evaluated when the call is made;
\* contents is the session's own array, given here as it is at that moment
StreamOptions(session) ==
  LET functionDeclarations ==
        acpToolsToFunctionDeclarations(
          IF Len(session.tools) > 0 THEN session.tools ELSE ACP_TOOLS)
  IN [ model |-> session.model, contents |-> session.contents ]
     @@ (IF session.systemInstruction # EmptyText
         THEN [systemInstruction |-> [parts |-> << [text |-> session.systemInstruction] >>]]
         ELSE EmptyObject)
     @@ (IF Len(functionDeclarations) > 0
         THEN [tools |-> << [functionDeclarations |-> functionDeclarations] >>]
         ELSE EmptyObject)

\* the options for the session behind an id; the handlers look the session up
\* before they get here, and an id without a session has nothing to send
OptionsOf(S, sessionId) ==
  IF HasSession(S, sessionId) THEN StreamOptions(S[sessionId])
  ELSE [model |-> EmptyText, contents |-> << >>]

\* streamGenerateContent: the request serialised when fetch is called, with
\* the contents array as it is then
AntigravityRequest(opts, contents) ==
  [ model |-> opts.model,
    request |-> [contents |-> contents]
                @@ (IF "systemInstruction" \in DOMAIN opts
                    THEN [systemInstruction |-> opts.systemInstruction] ELSE EmptyObject)
                @@ (IF "tools" \in DOMAIN opts /\ Len(opts.tools) > 0
                    THEN [tools |-> opts.tools] ELSE EmptyObject) ]

\* the handler in flight: what its closure holds
NewTurn(method, id, sessionId, input, params, opts) ==
  [ method |-> method, id |-> id, sessionId |-> sessionId, input |-> input,
    params |-> params, opts |-> opts, pc |-> "token" ]

RegisterTurn(T, t, turn) == [i \in DOMAIN T \cup {t} |-> IF i = t THEN turn ELSE T[i]]

RemoveTurn(T, t) == [i \in DOMAIN T \ {t} |-> T[i]]

\* mutant: the session lookup is not checked
TurnRejectionNoLookup(id, sessionId) ==
  IF ~initialized \/ ~antigravityClient
  THEN << sendError(id, ERR_NOT_INITIALIZED, "Server not initialized") >>
  ELSE << >>

\* the checks handlePrompt and handleToolResult make before their first step
TurnRejection(id, sessionId) ==
  IF ~initialized \/ ~antigravityClient
  THEN << sendError(id, ERR_NOT_INITIALIZED, "Server not initialized") >>
  ELSE IF ~HasSession(sessions, sessionId)
  THEN << sendError(id, ERR_APP, "Session not found") >>
  ELSE << >>

\* handlePrompt up to its first await
handlePrompt(sessionId, messages, maxTurns) ==
  LET t == nextTurn + 1
      userText == UserTextOf(messages)
      withUser == IF userText # EmptyText
                  THEN addUserMessage(sessions, sessionId, userText) ELSE sessions
  IN /\ LineArrives
     /\ IF TurnRejection(t, sessionId) # << >>
        THEN /\ SyncHandler(sessions, aborted,
                  Step("prompt", t, sessionId, "return", Null, "rejected", NoBody,
                       TurnRejection(t, sessionId)))
             /\ UNCHANGED << turns, nextTurn >>
        ELSE /\ nextTurn < maxTurns
             /\ nextTurn' = t
             /\ sessions' = setAbortController(withUser, sessionId, t)
             /\ turns' = RegisterTurn(turns, t,
                           NewTurn("prompt", t, sessionId, userText,
                                   [sessionId |-> sessionId, messages |-> messages],
                                   OptionsOf(withUser, sessionId)))
             /\ pendingRequests' = pendingRequests + 1
             /\ last' = Step("prompt", t, sessionId, "await", t, "none", NoBody, << >>)
             /\ UNCHANGED << aborted, exited >>
     /\ UNCHANGED << options, initialized, antigravityClient, initLoading, closing,
                     nextSession, storeOps >>

\* handleToolResult up to its first await
handleToolResult(sessionId, params, maxTurns) ==
  LET t == nextTurn + 1
  IN /\ LineArrives
     /\ IF TurnRejection(t, sessionId) # << >>
        THEN /\ SyncHandler(sessions, aborted,
                  Step("toolResult", t, sessionId, "return", Null, "rejected", NoBody,
                       TurnRejection(t, sessionId)))
             /\ UNCHANGED << turns, nextTurn >>
        ELSE /\ nextTurn < maxTurns
             /\ nextTurn' = t
             /\ sessions' = setAbortController(
                              addToolResult(sessions, sessionId, params.callId,
                                            params.name, params.result),
                              sessionId, t)
             /\ turns' = RegisterTurn(turns, t,
                           NewTurn("toolResult", t, sessionId, params, params,
                                   OptionsOf(
                                     addToolResult(sessions, sessionId, params.callId,
                                                   params.name, params.result),
                                     sessionId)))
             /\ pendingRequests' = pendingRequests + 1
             /\ last' = Step("toolResult", t, sessionId, "await", t, "none", NoBody, << >>)
             /\ UNCHANGED << aborted, exited >>
     /\ UNCHANGED << options, initialized, antigravityClient, initLoading, closing,
                     nextSession, storeOps >>

\* ---------------------------------------------------------- the turn's drain
\* mutant: each notification is written ahead of the lines already written
RECURSIVE HandleNotificationsPrepend(_, _, _, _, _)
HandleNotificationsPrepend(st, sessionId, adapter, notes, i) ==
  IF i > Len(notes) THEN st
  ELSE
    LET update == notes[i].params.update
        sent == [st EXCEPT !.out = << notes[i] >> \o @]
        called ==
          IF update.kind = "tool_call"
          THEN [sent EXCEPT
                  !.pending = Append(@, [id |-> update.callId, name |-> update.tool.name]),
                  !.sessions = addToolCall(@, sessionId,
                                 [name |-> update.tool.name, args |-> update.input,
                                  id |-> update.callId])]
          ELSE sent
        committed ==
          IF update.kind = "finish" /\ getAccumulatedText(adapter) # EmptyText
          THEN [called EXCEPT
                  !.sessions = addAssistantMessage(@, sessionId, getAccumulatedText(adapter))]
          ELSE called
    IN HandleNotificationsPrepend(committed, sessionId, adapter, notes, i + 1)

\* for (const notification of notifications): st is [sessions, out, pending],
\* adapter is the adapter after the whole event
RECURSIVE HandleNotifications(_, _, _, _, _)
HandleNotifications(st, sessionId, adapter, notes, i) ==
  IF i > Len(notes) THEN st
  ELSE
    LET update == notes[i].params.update
        sent == [st EXCEPT !.out = Append(@, notes[i])]
        called ==
          IF update.kind = "tool_call"
          THEN [sent EXCEPT
                  !.pending = Append(@, [id |-> update.callId, name |-> update.tool.name]),
                  !.sessions = addToolCall(@, sessionId,
                                 [name |-> update.tool.name, args |-> update.input,
                                  id |-> update.callId])]
          ELSE sent
        committed ==
          IF update.kind = "finish" /\ getAccumulatedText(adapter) # EmptyText
          THEN [called EXCEPT
                  !.sessions = addAssistantMessage(@, sessionId, getAccumulatedText(adapter))]
          ELSE called
    IN HandleNotifications(committed, sessionId, adapter, notes, i + 1)

\* mutant: the pending list is started afresh for every event
RECURSIVE DrainEventsPendingPerEvent(_, _, _, _)
DrainEventsPendingPerEvent(st, sessionId, events, i) ==
  IF i > Len(events) THEN st
  ELSE
    LET ev == processEvent(st.adapter, sessionId, events[i])
        h == HandleNotifications(
               [sessions |-> st.sessions, out |-> st.out, pending |-> << >>],
               sessionId, ev.adapter, ev.notes, 1)
    IN DrainEventsPendingPerEvent(
         [sessions |-> h.sessions, out |-> h.out, pending |-> h.pending,
          adapter |-> ev.adapter],
         sessionId, events, i + 1)

\* for await (const event of stream): st is [sessions, out, pending, adapter]
RECURSIVE DrainEvents(_, _, _, _)
DrainEvents(st, sessionId, events, i) ==
  IF i > Len(events) THEN st
  ELSE
    LET ev == processEvent(st.adapter, sessionId, events[i])
        h == HandleNotifications(
               [sessions |-> st.sessions, out |-> st.out, pending |-> st.pending],
               sessionId, ev.adapter, ev.notes, 1)
    IN DrainEvents([sessions |-> h.sessions, out |-> h.out, pending |-> h.pending,
                    adapter |-> ev.adapter],
                   sessionId, events, i + 1)

\* mutant: the pending list is sent even when it is empty
PromptResultAlways(pending) == [pending |-> pending]

\* const result = { pending: pendingToolCalls.length > 0 ? pendingToolCalls : undefined }
PromptResult(pending) ==
  IF Len(pending) > 0 THEN [pending |-> pending] ELSE EmptyObject

\* mutant: every failure is reported as an internal error
TurnErrorResponseInternal(id, error, message) ==
  sendError(id, ERR_INTERNAL, IF message # "" THEN message ELSE "Unknown error")

\* catch (error): the error response of a failed turn
TurnErrorResponse(id, error, message) ==
  IF error = "AbortError"
  THEN sendError(id, ERR_APP, "Request cancelled")
  ELSE sendError(id, ERR_INTERNAL, IF message # "" THEN message ELSE "Unknown error")

\* mutant: the finally block forgets the handle
TurnCleanupSkipped(S, sessionId) == S

\* finally { sessionManager.setAbortController(params.sessionId, null) }
TurnCleanup(S, sessionId) == setAbortController(S, sessionId, Null)

\* mutant: the catch block commits the text accumulated so far
RunTurnCommitsOnFailure(S, turn, body) ==
  LET d == DrainEvents([sessions |-> S, out |-> << >>, pending |-> << >>,
                        adapter |-> NewAdapter],
                       turn.sessionId, body.events, 1)
      kept == IF body.error # "none" /\ getAccumulatedText(d.adapter) # EmptyText
              THEN addAssistantMessage(d.sessions, turn.sessionId,
                                       getAccumulatedText(d.adapter))
              ELSE d.sessions
  IN [ sessions |-> TurnCleanup(kept, turn.sessionId),
       out |-> Append(d.out,
                 IF body.error = "none"
                 THEN ResultResponse(turn.id, PromptResult(d.pending))
                 ELSE TurnErrorResponse(turn.id, body.error, body.message)) ]

\* mutant: the finally block clears the handle of every session
RunTurnClearsEveryHandle(S, turn, body) ==
  LET d == DrainEvents([sessions |-> S, out |-> << >>, pending |-> << >>,
                        adapter |-> NewAdapter],
                       turn.sessionId, body.events, 1)
  IN [ sessions |-> [i \in DOMAIN d.sessions |->
                       [d.sessions[i] EXCEPT !.abortController = Null]],
       out |-> Append(d.out,
                 IF body.error = "none"
                 THEN ResultResponse(turn.id, PromptResult(d.pending))
                 ELSE TurnErrorResponse(turn.id, body.error, body.message)) ]

\* try { ... } catch { ... } finally { ... } once the stream's outcome is
\* known: the store after the turn and the lines it writes
RunTurn(S, turn, body) ==
  LET d == DrainEvents([sessions |-> S, out |-> << >>, pending |-> << >>,
                        adapter |-> NewAdapter],
                       turn.sessionId, body.events, 1)
  IN [ sessions |-> TurnCleanup(d.sessions, turn.sessionId),
       out |-> Append(d.out,
                 IF body.error = "none"
                 THEN ResultResponse(turn.id, PromptResult(d.pending))
                 ELSE TurnErrorResponse(turn.id, body.error, body.message)) ]

\* handleToolResult's own copy of the loop over the notifications of an event
RECURSIVE HandleToolResultNotifications(_, _, _, _, _)
HandleToolResultNotifications(st, sessionId, adapter, notes, i) ==
  IF i > Len(notes) THEN st
  ELSE
    LET update == notes[i].params.update
        sent == [st EXCEPT !.out = Append(@, notes[i])]
        called ==
          IF update.kind = "tool_call"
          THEN [sent EXCEPT
                  !.pending = Append(@, [id |-> update.callId, name |-> update.tool.name]),
                  !.sessions = addToolCall(@, sessionId,
                                 [name |-> update.tool.name, args |-> update.input,
                                  id |-> update.callId])]
          ELSE sent
        committed ==
          IF update.kind = "finish" /\ getAccumulatedText(adapter) # EmptyText
          THEN [called EXCEPT
                  !.sessions = addAssistantMessage(@, sessionId, getAccumulatedText(adapter))]
          ELSE called
    IN HandleToolResultNotifications(committed, sessionId, adapter, notes, i + 1)

\* handleToolResult's own copy of the loop over the events of the stream
RECURSIVE DrainToolResultEvents(_, _, _, _)
DrainToolResultEvents(st, sessionId, events, i) ==
  IF i > Len(events) THEN st
  ELSE
    LET ev == processEvent(st.adapter, sessionId, events[i])
        h == HandleToolResultNotifications(
               [sessions |-> st.sessions, out |-> st.out, pending |-> st.pending],
               sessionId, ev.adapter, ev.notes, 1)
    IN DrainToolResultEvents(
         [sessions |-> h.sessions, out |-> h.out, pending |-> h.pending,
          adapter |-> ev.adapter],
         sessionId, events, i + 1)

\* mutant: handleToolResult's finally block forgets the handle
ToolResultCleanupSkipped(S, sessionId) == S

\* handleToolResult's finally { sessionManager.setAbortController(params.sessionId, null) }
ToolResultCleanup(S, sessionId) == setAbortController(S, sessionId, Null)

\* mutant: handleToolResult answers a cancelled turn like any other failure
RunToolResultTurnNoAbortCase(S, turn, body) ==
  LET d == DrainToolResultEvents([sessions |-> S, out |-> << >>, pending |-> << >>,
                                  adapter |-> NewAdapter],
                                 turn.sessionId, body.events, 1)
  IN [ sessions |-> ToolResultCleanup(d.sessions, turn.sessionId),
       out |-> Append(d.out,
                 IF body.error = "none"
                 THEN ResultResponse(turn.id,
                        IF Len(d.pending) > 0 THEN [pending |-> d.pending]
                        ELSE EmptyObject)
                 ELSE sendError(turn.id, ERR_INTERNAL,
                                IF body.message # "" THEN body.message
                                ELSE "Unknown error")) ]

\* handleToolResult's own try / catch / finally
RunToolResultTurn(S, turn, body) ==
  LET d == DrainToolResultEvents([sessions |-> S, out |-> << >>, pending |-> << >>,
                                  adapter |-> NewAdapter],
                                 turn.sessionId, body.events, 1)
  IN [ sessions |-> ToolResultCleanup(d.sessions, turn.sessionId),
       out |-> Append(d.out,
                 IF body.error = "none"
                 THEN ResultResponse(turn.id,
                        IF Len(d.pending) > 0 THEN [pending |-> d.pending]
                        ELSE EmptyObject)
                 ELSE IF body.error = "AbortError"
                 THEN sendError(turn.id, ERR_APP, "Request cancelled")
                 ELSE sendError(turn.id, ERR_INTERNAL,
                                IF body.message # "" THEN body.message
                                ELSE "Unknown error")) ]

\* the handler of turn t returns: its record leaves turns, the line handler ends
TurnReturns(t, outcome, body) ==
  LET r == IF turns[t].method = "toolResult"
           THEN RunToolResultTurn(sessions, turns[t], body)
           ELSE RunTurn(sessions, turns[t], body)
      d == LineDone(r.sessions, aborted \ {t}, pendingRequests)
  IN /\ turns' = RemoveTurn(turns, t)
     /\ sessions' = d.sessions
     /\ aborted' = d.aborted
     /\ pendingRequests' = d.pendingRequests
     /\ exited' = d.exited
     /\ last' = Step(turns[t].method, turns[t].id, turns[t].sessionId, "return", t,
                     outcome, body, r.out)
     /\ UNCHANGED << options, initialized, antigravityClient, initLoading, closing,
                     nextSession, nextTurn, storeOps >>

\* streamGenerateContent: await ensureToken() settles and fetch is called
TurnTokenReady(t) ==
  /\ ~exited
  /\ t \in DOMAIN turns
  /\ turns[t].pc = "token"
  /\ turns' = [turns EXCEPT ![t].pc = "fetch"]
  /\ last' = [ Step(turns[t].method, turns[t].id, turns[t].sessionId, "await", t,
                    "none", NoBody, << >>)
               EXCEPT !.request =
                 AntigravityRequest(turns[t].opts,
                   IF HasSession(sessions, turns[t].sessionId)
                   THEN getContents(sessions, turns[t].sessionId)
                   ELSE turns[t].opts.contents) ]
  /\ UNCHANGED << options, initialized, antigravityClient, sessions, aborted,
                  initLoading, pendingRequests, closing, exited, nextSession, nextTurn,
                  storeOps >>

\* streamGenerateContent: refreshAccessToken throws
TurnTokenFails(t) ==
  /\ ~exited
  /\ t \in DOMAIN turns
  /\ turns[t].pc = "token"
  /\ TurnReturns(t, "token_error", Body(<< >>, "Error", "Token refresh failed"))

\* streamGenerateContent: fetch or reader.read() rejects because the signal
\* is aborted
TurnAborted(t) ==
  /\ ~exited
  /\ t \in DOMAIN turns
  /\ turns[t].pc = "fetch"
  /\ t \in aborted
  /\ TurnReturns(t, "aborted", Body(<< >>, "AbortError", "This operation was aborted"))

\* streamGenerateContent: the body has been read (or the call failed) and
\* every event of it is drained
TurnResponse(t, body) ==
  /\ ~exited
  /\ t \in DOMAIN turns
  /\ turns[t].pc = "fetch"
  /\ t \notin aborted
  /\ TurnReturns(t, "response", body)

\* mutant: a cancel that finds nothing to cancel is answered with an error
handleCancelRejectsIdle(id, sessionId) ==
  LET c == cancelSession(sessions, aborted, sessionId)
  IN /\ LineArrives
     /\ SyncHandler(c.sessions, c.aborted,
          Step("cancel", id, sessionId, "return", Null, "none", NoBody,
               << IF c.ret THEN ResultResponse(id, [cancelled |-> c.ret])
                  ELSE sendError(id, ERR_APP, "Session not found") >>))
     /\ UNCHANGED << options, initialized, antigravityClient, turns, initLoading,
                     closing, nextSession, nextTurn, storeOps >>

handleCancel(id, sessionId) ==
  LET c == cancelSession(sessions, aborted, sessionId)
  IN /\ LineArrives
     /\ SyncHandler(c.sessions, c.aborted,
          Step("cancel", id, sessionId, "return", Null, "none", NoBody,
               << ResultResponse(id, [cancelled |-> c.ret]) >>))
     /\ UNCHANGED << options, initialized, antigravityClient, turns, initLoading,
                     closing, nextSession, nextTurn, storeOps >>

\* The inputs a specification draws from: the configs, prompt messages, tool
\* results and backend bodies of its requests, and its bounds.
CoreBodies ==
  { Body(<< Event(<< TextX >>, "STOP") >>, "none", ""),
    Body(<< >>, "Error", "API error 500") }

CoreInputs ==
  [ configs |-> { EmptyObject },
    messages |-> { << UserMessage(<<"h", "i">>) >> },
    toolResults |-> { [callId |-> "c1", name |-> "read_file",
                       result |-> [typeof |-> "string", value |-> <<"o">>]] },
    bodies |-> CoreBodies,
    maxSessions |-> MaxSessions,
    maxTurns |-> MaxTurns ]

\* handlePrompt / handleToolResult on params that lack messages / tool: the
\* checks run first, then the handler throws a TypeError before it changes
\* anything, and start()'s catch answers it as a parse error
handleTurnBadParams(method, id, sessionId) ==
  /\ LineArrives
  /\ SyncHandler(sessions, aborted,
       Step(method, id, sessionId, "return", Null,
            IF TurnRejection(id, sessionId) # << >> THEN "rejected" ELSE "throw", NoBody,
            IF TurnRejection(id, sessionId) # << >>
            THEN TurnRejection(id, sessionId)
            ELSE << sendError(Null, ERR_PARSE, "Parse error") >>))
  /\ UNCHANGED << options, initialized, antigravityClient, turns, initLoading,
                  closing, nextSession, nextTurn, storeOps >>

\* mutant: the line is counted and the count is never given back
MalformedLineLeaksCount ==
  /\ LineArrives
  /\ pendingRequests' = pendingRequests + 1
  /\ last' = Step("malformed", Null, Null, "return", Null, "throw", NoBody,
                  << sendError(Null, ERR_PARSE, "Parse error") >>)
  /\ UNCHANGED << options, initialized, antigravityClient, sessions, aborted, turns,
                  initLoading, closing, exited, nextSession, nextTurn, storeOps >>

\* a line that is not JSON
MalformedLine ==
  /\ LineArrives
  /\ SyncHandler(sessions, aborted,
       Step("malformed", Null, Null, "return", Null, "throw", NoBody,
            << sendError(Null, ERR_PARSE, "Parse error") >>))
  /\ UNCHANGED << options, initialized, antigravityClient, turns, initLoading,
                  closing, nextSession, nextTurn, storeOps >>

\* start(): if (!line.trim()) return; a blank line is dropped before it is
\* counted or parsed
BlankLine ==
  /\ LineArrives
  /\ last' = Step("blank", Null, Null, "return", Null, "none", NoBody, << >>)
  /\ UNCHANGED << options, initialized, antigravityClient, sessions, aborted, turns,
                  initLoading, pendingRequests, closing, exited, nextSession, nextTurn,
                  storeOps >>

\* handleRequest: default
UnknownMethod(id) ==
  /\ LineArrives
  /\ SyncHandler(sessions, aborted,
       Step("unknown", id, Null, "return", Null, "none", NoBody,
            << sendError(id, ERR_METHOD_NOT_FOUND, "Method not found") >>))
  /\ UNCHANGED << options, initialized, antigravityClient, turns, initLoading,
                  closing, nextSession, nextTurn, storeOps >>

\* handleShutdown: process.exit(0) ends the process inside the handler, so
\* the line handler's finally never runs
handleShutdown(id) ==
  /\ LineArrives
  /\ sessions' = clear(sessions, aborted).sessions
  /\ aborted' = clear(sessions, aborted).aborted
  /\ pendingRequests' = pendingRequests + 1
  /\ exited' = TRUE
  /\ last' = Step("shutdown", id, Null, "return", Null, "none", NoBody,
                  << ResultResponse(id, EmptyObject) >>)
  /\ UNCHANGED << options, initialized, antigravityClient, turns, initLoading,
                  closing, nextSession, nextTurn, storeOps >>

\* rl.on('close'): closing = true; maybeExit()
Close ==
  /\ LineArrives
  /\ closing' = TRUE
  /\ IF pendingRequests = 0
     THEN /\ sessions' = clear(sessions, aborted).sessions
          /\ aborted' = clear(sessions, aborted).aborted
          /\ exited' = TRUE
     ELSE UNCHANGED << sessions, aborted, exited >>
  /\ last' = Step("close", Null, Null, "return", Null, "none", NoBody, << >>)
  /\ UNCHANGED << options, initialized, antigravityClient, turns, initLoading,
                  pendingRequests, nextSession, nextTurn, storeOps >>

\* the session ids a request may name: the existing ones and one that is unknown
RequestSessionIds == DOMAIN sessions \cup {Null}

NextOf(I) ==
  \/ \E id \in SyncIds : InitializeSync(id)
  \/ \E id \in SyncIds : InitializeStart(id)
  \/ \E id \in SyncIds, loaded \in {"auth", "none", "throw"} : InitializeLoaded(id, loaded)
  \/ \E id \in SyncIds, config \in I.configs : handleNewSession(id, config, I.maxSessions)
  \/ \E sid \in RequestSessionIds, messages \in I.messages :
       handlePrompt(sid, messages, I.maxTurns)
  \/ \E sid \in RequestSessionIds, params \in I.toolResults :
       handleToolResult(sid, params, I.maxTurns)
  \/ \E t \in DOMAIN turns : TurnTokenReady(t)
  \/ \E t \in DOMAIN turns : TurnTokenFails(t)
  \/ \E t \in DOMAIN turns : TurnAborted(t)
  \/ \E t \in DOMAIN turns, body \in I.bodies : TurnResponse(t, body)
  \/ \E id \in SyncIds, sid \in RequestSessionIds : handleCancel(id, sid)

\* the lines that end the process or are answered without reaching a turn
FrontEnd ==
  \/ \E id \in SyncIds, sid \in RequestSessionIds, method \in {"prompt", "toolResult"} :
       handleTurnBadParams(method, id, sid)
  \/ MalformedLine
  \/ BlankLine
  \/ \E id \in SyncIds : UnknownMethod(id)
  \/ \E id \in SyncIds : handleShutdown(id)
  \/ Close

Next == NextOf(CoreInputs)

Spec == Init /\ [][Next]_vars

\* backend calls that end without an event or fail
CloseBodies == { Body(<< >>, "none", ""), Body(<< >>, "Error", "API error 500") }

\* The whole front end: every kind of line, end of input and shutdown, with
\* backend calls that end without an event or fail.
FrontInputs == [CoreInputs EXCEPT !.bodies = CloseBodies, !.maxTurns = MaxFrontTurns]

NextFront == NextOf(FrontInputs) \/ FrontEnd

SpecFront == Init /\ [][NextFront]_vars

\* End of input: the core requests with backend calls that end without an
\* event or fail, and the close of the transport.
CloseInputs == [CoreInputs EXCEPT !.bodies = CloseBodies, !.maxTurns = MaxCloseTurns]

NextClose == NextOf(CloseInputs) \/ Close

\* A handler in flight takes its next step: the awaited promise settles and
\* the event loop runs the continuation.
Progress ==
  \/ \E t \in DOMAIN turns : TurnTokenReady(t)
  \/ \E t \in DOMAIN turns : TurnTokenFails(t)
  \/ \E t \in DOMAIN turns : TurnAborted(t)
  \/ \E t \in DOMAIN turns, body \in CloseInputs.bodies : TurnResponse(t, body)
  \/ \E id \in SyncIds, loaded \in {"auth", "none", "throw"} : InitializeLoaded(id, loaded)

\* Every awaited backend call and credential load settles.
SpecClose == Init /\ [][NextClose]_vars /\ WF_vars(Progress)

\* One session, one turn at a time in detail: every prompt and every body.
DetailInputs ==
  [ configs |-> { EmptyObject },
    messages |-> MessageLists,
    toolResults |-> { [callId |-> "c1", name |-> "read_file",
                       result |-> [typeof |-> "string", value |-> <<"o">>]] },
    bodies |-> Bodies,
    maxSessions |-> MaxSessions,
    maxTurns |-> MaxDetailTurns ]

NextTurn == NextOf(DetailInputs)

SpecTurn == Init /\ [][NextTurn]_vars

\* ------------------------------------------------- the Session Store alone
\* The store's operations called directly, in any order, from the empty store.
StoreTexts == { <<"a">>, <<"b">> }

StoreUserTexts == { <<"u">> }

StoreCalls == { [name |-> "read_file", args |-> "a", id |-> "c1"] }

StoreControllers == {1}

\* what `last` records of a store call: the call, its result, the store and
\* the aborted controllers before it
StoreStep(method, sessionId, arg, ret) ==
  [ method |-> method, sessionId |-> sessionId, arg |-> arg, ret |-> ret,
    before |-> sessions, abortedBefore |-> aborted ]

InitStore ==
  /\ options = [auth |-> FALSE]
  /\ initialized = FALSE
  /\ antigravityClient = FALSE
  /\ sessions = NoSessions
  /\ aborted = {}
  /\ turns = [t \in {} |-> 0]
  /\ initLoading = 0
  /\ pendingRequests = 0
  /\ closing = FALSE
  /\ exited = FALSE
  /\ nextSession = 0
  /\ nextTurn = 0
  /\ storeOps = 0
  /\ last = [ method |-> "none", sessionId |-> Null, arg |-> Null, ret |-> FALSE,
              before |-> NoSessions, abortedBefore |-> {} ]

StoreFrame ==
  UNCHANGED << options, initialized, antigravityClient, turns, initLoading,
               pendingRequests, closing, exited, nextTurn >>

\* a store call that returns nothing
StoreMutation(method, sessionId, arg, S) ==
  /\ storeOps < MaxStoreOps
  /\ storeOps' = storeOps + 1
  /\ sessions' = S
  /\ last' = StoreStep(method, sessionId, arg, FALSE)
  /\ UNCHANGED << aborted, nextSession >>
  /\ StoreFrame

StoreCreateSession(config) ==
  /\ nextSession < MaxSessions
  /\ nextSession' = nextSession + 1
  /\ sessions' = createSession(sessions, nextSession + 1, config, DEFAULT_MODEL)
  /\ last' = StoreStep("createSession", nextSession + 1, config, FALSE)
  /\ UNCHANGED << aborted, storeOps >>
  /\ StoreFrame

StoreAddUserMessage(sessionId, text) ==
  StoreMutation("addUserMessage", sessionId, text,
                addUserMessage(sessions, sessionId, text))

StoreAddAssistantMessage(sessionId, text) ==
  StoreMutation("addAssistantMessage", sessionId, text,
                addAssistantMessage(sessions, sessionId, text))

StoreAddToolCall(sessionId, functionCall) ==
  StoreMutation("addToolCall", sessionId, functionCall,
                addToolCall(sessions, sessionId, functionCall))

StoreAddToolResult(sessionId, params) ==
  StoreMutation("addToolResult", sessionId, params,
                addToolResult(sessions, sessionId, params.callId, params.name,
                              params.result))

StoreSetAbortController(sessionId, controller) ==
  /\ controller \notin aborted
  /\ StoreMutation("setAbortController", sessionId, controller,
                   setAbortController(sessions, sessionId, controller))

StoreCancelSession(sessionId) ==
  LET c == cancelSession(sessions, aborted, sessionId)
  IN /\ storeOps < MaxStoreOps
     /\ storeOps' = storeOps + 1
     /\ sessions' = c.sessions
     /\ aborted' = c.aborted
     /\ last' = StoreStep("cancelSession", sessionId, Null, c.ret)
     /\ UNCHANGED nextSession
     /\ StoreFrame

StoreClear ==
  /\ storeOps < MaxStoreOps
  /\ storeOps' = storeOps + 1
  /\ sessions' = clear(sessions, aborted).sessions
  /\ aborted' = clear(sessions, aborted).aborted
  /\ last' = StoreStep("clear", Null, Null, FALSE)
  /\ UNCHANGED nextSession
  /\ StoreFrame

NextStore ==
  \/ \E config \in {EmptyObject} : StoreCreateSession(config)
  \/ \E sid \in RequestSessionIds, text \in StoreUserTexts : StoreAddUserMessage(sid, text)
  \/ \E sid \in RequestSessionIds, text \in StoreTexts : StoreAddAssistantMessage(sid, text)
  \/ \E sid \in RequestSessionIds, fc \in StoreCalls : StoreAddToolCall(sid, fc)
  \/ \E sid \in RequestSessionIds, params \in ToolResults : StoreAddToolResult(sid, params)
  \/ \E sid \in RequestSessionIds, c \in StoreControllers \cup {Null} :
       StoreSetAbortController(sid, c)
  \/ \E sid \in RequestSessionIds : StoreCancelSession(sid)
  \/ StoreClear

SpecStore == InitStore /\ [][NextStore]_vars

\* ================================================================ claims
\* A step is the arrival of a prompt / toolResult line when the turn it names
\* is not yet in flight; it is the return of a turn when the turn was in flight.
TurnArrives == last'.method \in {"prompt", "toolResult"} /\ last'.turn \notin DOMAIN turns

TurnReturnsNow == last'.phase = "return" /\ last'.turn \in DOMAIN turns

TurnsOn(T, sessionId) == {t \in DOMAIN T : T[t].sessionId = sessionId}

\* ---------------------------------------------------------------- C1
\* C1: whenever a prompt or toolResult turn that passed its checks returns -
\* normally, cancelled or after a backend failure - the session's cancellation
\* handle is none when the handler returns, and a prompt that arrives next on
\* that session starts a new backend call (a fresh, unaborted controller is
\* stored and the turn awaits streamGenerateContent).
C1_Step ==
  /\ (TurnReturnsNow /\ HasSession(sessions', last'.sessionId))
       => sessions'[last'.sessionId].abortController = Null
  /\ ( /\ last.phase = "return" /\ last.turn # Null
       /\ TurnArrives /\ last'.method = "prompt"
       /\ last'.sessionId = last.sessionId
       /\ HasSession(sessions, last.sessionId) )
       => /\ last'.phase = "await"
          /\ last'.turn \in DOMAIN turns'
          /\ turns'[last'.turn].pc = "token"
          /\ last'.turn \notin aborted'
          /\ sessions'[last'.sessionId].abortController = last'.turn

C1_HandleReleased == [][C1_Step]_vars

C1_Witness ==
  /\ nextTurn = 2 /\ DOMAIN turns = {2}
  /\ last.method = "prompt" /\ last.phase = "await" /\ last.turn = 2
  /\ turns[2].pc = "token"
  /\ sessions[last.sessionId].abortController = 2
  /\ Len(sessions[last.sessionId].contents) = 2

\* ---------------------------------------------------------------- C2
\* C2: in every reachable state each session has at most one live cancellation
\* handle: at most one turn in flight on it whose controller is not aborted.
C2_OneLiveHandle ==
  \A s \in DOMAIN sessions :
    Cardinality({t \in TurnsOn(turns, s) : t \notin aborted}) <= 1

\* ---------------------------------------------------------------- C3
\* C3: when a turn starts on a session on which an earlier turn is still in
\* flight, its handle replaces the stored one; when a turn returns while
\* another turn of the session is still in flight, the cleanup sets the
\* session's handle to none; and a cancel that finds the handle none answers
\* cancelled: false, aborts nothing and leaves every turn in flight.
C3_Step ==
  /\ (TurnArrives /\ last'.phase = "await" /\ TurnsOn(turns, last'.sessionId) # {})
       => sessions'[last'.sessionId].abortController = last'.turn
  /\ (TurnReturnsNow /\ TurnsOn(turns, last'.sessionId) # {last'.turn})
       => /\ sessions'[last'.sessionId].abortController = Null
          /\ TurnsOn(turns', last'.sessionId) = TurnsOn(turns, last'.sessionId) \ {last'.turn}
  /\ ( /\ last'.method = "cancel"
       /\ HasSession(sessions, last'.sessionId)
       /\ sessions[last'.sessionId].abortController = Null )
       => /\ last'.out = << ResultResponse(last'.id, [cancelled |-> FALSE]) >>
          /\ aborted' = aborted
          /\ turns' = turns

C3_StaleCleanupClearsNewHandle == [][C3_Step]_vars

C3_Witness ==
  /\ last.method = "cancel"
  /\ last.out = << ResultResponse(last.id, [cancelled |-> FALSE]) >>
  /\ nextTurn = 2 /\ DOMAIN turns = {2}
  /\ turns[2].sessionId = last.sessionId
  /\ 2 \notin aborted
  /\ sessions[last.sessionId].abortController = Null

\* ---------------------------------------------------------------- C4
\* C4: a turn whose controller was aborted while it awaits the backend
\* (fetch or the body reads) returns with exactly one line, the error
\* response -32001 'Request cancelled': no result, no notification.
C4_Step ==
  ( /\ last'.turn \in DOMAIN turns
    /\ turns[last'.turn].pc = "fetch"
    /\ last'.turn \in aborted )
    => /\ last'.phase = "return"
       /\ last'.out = << sendError(turns[last'.turn].id, -32001, "Request cancelled") >>

C4_CancelledTurn == [][C4_Step]_vars

C4_Witness ==
  /\ last.phase = "return" /\ last.outcome = "aborted"
  /\ Len(last.out) = 1
  /\ IsErrorResponse(last.out[1])
  /\ last.out[1].error.code = -32001
  /\ last.out[1].id = last.id

\* ---------------------------------------------------------------- C6
\* C6: once initialized with an authenticated backend, a prompt or toolResult
\* that names a session id not in the store is answered with error -32001
\* only: no notification, no turn started, the Session Store unchanged.
C6_Step ==
  ( /\ TurnArrives
    /\ initialized /\ antigravityClient
    /\ ~HasSession(sessions, last'.sessionId) )
    => /\ Len(last'.out) = 1
       /\ IsErrorResponse(last'.out[1])
       /\ last'.out[1].error.code = -32001
       /\ last'.out[1].id = last'.id
       /\ last'.phase = "return"
       /\ sessions' = sessions
       /\ turns' = turns
       /\ nextTurn' = nextTurn

C6_UnknownSession == [][C6_Step]_vars

C6_Witness ==
  /\ last.method \in {"prompt", "toolResult"}
  /\ last.outcome = "rejected"
  /\ initialized /\ antigravityClient
  /\ DOMAIN sessions # {}
  /\ ~HasSession(sessions, last.sessionId)
  /\ last.out[1].error.code = -32001

\* ---------------------------------------------------------------- C5
\* C5 (SpecStore): cancelSession on an absent session or on a session whose
\* handle is none returns false and changes neither the store nor any
\* controller; on a session with a handle it aborts that controller, sets the
\* handle to none, changes nothing else and returns true; a cancel of the
\* same session right after one that returned true returns false.
C5_Step ==
  last'.method = "cancelSession" =>
    LET sid == last'.sessionId
    IN /\ (~HasSession(sessions, sid) \/ sessions[sid].abortController = Null)
            => /\ last'.ret = FALSE
               /\ sessions' = sessions
               /\ aborted' = aborted
       /\ (HasSession(sessions, sid) /\ sessions[sid].abortController # Null)
            => /\ last'.ret = TRUE
               /\ aborted' = aborted \cup {sessions[sid].abortController}
               /\ sessions' = [sessions EXCEPT ![sid].abortController = Null]
       /\ (last.method = "cancelSession" /\ last.sessionId = sid /\ last.ret)
            => last'.ret = FALSE

C5_Cancel == [][C5_Step]_vars

C5_Witness ==
  /\ last.method = "cancelSession"
  /\ last.ret = TRUE
  /\ HasSession(last.before, last.sessionId)
  /\ last.before[last.sessionId].abortController # Null
  /\ last.before[last.sessionId].abortController \in aborted
  /\ last.before[last.sessionId].abortController \notin last.abortedBefore
  /\ sessions[last.sessionId].abortController = Null

\* ---------------------------------------------------------------- C7
\* the body is one event with one candidate that carries the single plain
\* text part x and the normal-stop marker
IsTextStopBody(body) ==
  /\ body.error = "none"
  /\ Len(body.events) = 1
  /\ Len(body.events[1].candidates) = 1
  /\ Len(body.events[1].candidates[1].parts) = 1
  /\ IsMessagePart(body.events[1].candidates[1].parts[1])
  /\ body.events[1].candidates[1].finishReason = "STOP"

\* C7 (SpecTurn): a prompt with user text t on a freshly created session
\* (history: that user text only) whose stream is one plain text part x and a
\* normal-stop marker writes exactly agent_message_chunk(x), then
\* session_complete(end_turn), then a result without a pending field, and
\* leaves the history [user t, model x].
C7_Step ==
  ( /\ TurnReturnsNow
    /\ turns[last'.turn].method = "prompt"
    /\ turns[last'.turn].input # EmptyText
    /\ sessions[last'.sessionId].contents =
         << [role |-> "user", parts |-> << [text |-> turns[last'.turn].input] >>] >>
    /\ last'.outcome = "response"
    /\ IsTextStopBody(last'.body) )
    => LET x == last'.body.events[1].candidates[1].parts[1].text
           out == last'.out
       IN /\ Len(out) = 3
          /\ IsNotification(out[1])
          /\ out[1].params.update.type = "agent_message_chunk"
          /\ out[1].params.update.chunk = x
          /\ IsNotification(out[2])
          /\ out[2].params.update.type = "session_complete"
          /\ out[2].params.update.reason = "end_turn"
          /\ IsResultResponse(out[3])
          /\ out[3].id = turns[last'.turn].id
          /\ "pending" \notin DOMAIN out[3].result
          /\ sessions'[last'.sessionId].contents =
               << [role |-> "user", parts |-> << [text |-> turns[last'.turn].input] >>],
                  [role |-> "model", parts |-> << [text |-> x] >>] >>

C7_EndToEnd == [][C7_Step]_vars

C7_Witness ==
  /\ last.phase = "return" /\ last.method = "prompt" /\ last.outcome = "response"
  /\ IsTextStopBody(last.body)
  /\ Len(last.out) = 3
  /\ sessions[last.sessionId].contents =
       << [role |-> "user", parts |-> << [text |-> <<"h", "i">>] >>],
          [role |-> "model", parts |-> << [text |-> <<"x">>] >>] >>

\* ---------------------------------------------------------------- C8
\* the tool-call parts of the body's only candidate
CallPartsOf(body) ==
  SelectSeq(body.events[1].candidates[1].parts, IsCallPart)

\* the body is one event with one candidate that carries exactly one
\* tool-call part (among any text or thought parts) and the tool-use marker
IsToolUseBody(body) ==
  /\ body.error = "none"
  /\ Len(body.events) = 1
  /\ Len(body.events[1].candidates) = 1
  /\ Len(CallPartsOf(body)) = 1
  /\ body.events[1].candidates[1].finishReason = "TOOL_USE"

HasCall(content, callId, name) ==
  \E i \in 1..Len(content.parts) :
    /\ "functionCall" \in DOMAIN content.parts[i]
    /\ content.parts[i].functionCall.id = callId
    /\ content.parts[i].functionCall.name = name

\* C8 (SpecTurn): for every turn whose stream yields one tool-call part
\* followed by a tool-use marker, whatever text or thought parts it also
\* carries, the result's pending list is exactly that call (id, name) and the
\* last element of the session's history is a model element holding the call.
C8_Step ==
  ( /\ TurnReturnsNow
    /\ last'.outcome = "response"
    /\ IsToolUseBody(last'.body) )
    => LET fc == CallPartsOf(last'.body)[1].functionCall
           res == last'.out[Len(last'.out)]
           h == sessions'[last'.sessionId].contents
       IN /\ IsResultResponse(res)
          /\ "pending" \in DOMAIN res.result
          /\ res.result.pending = << [id |-> CallIdOf(fc), name |-> fc.name] >>
          /\ Len(h) > 0
          /\ h[Len(h)].role = "model"
          /\ HasCall(h[Len(h)], CallIdOf(fc), fc.name)

C8_ToolCallRoundTrip == [][C8_Step]_vars

\* ---------------------------------------------------------------- C9
\* two addAssistantMessage calls on one existing session, one right after
\* the other
TwoAppends ==
  /\ last.method = "addAssistantMessage"
  /\ last'.method = "addAssistantMessage"
  /\ last'.sessionId = last.sessionId
  /\ HasSession(last.before, last.sessionId)
  /\ HasSession(sessions, last.sessionId)

\* the history before the first call has grown by exactly one model element,
\* whose only part is the text a followed by b
OneNewModelElement ==
  LET h0 == last.before[last.sessionId].contents
      h2 == sessions'[last.sessionId].contents
  IN /\ Len(h2) = Len(h0) + 1
     /\ SubSeq(h2, 1, Len(h0)) = h0
     /\ h2[Len(h2)] = [role |-> "model", parts |-> << [text |-> last.arg \o last'.arg] >>]

\* the history's last element is a model element that holds a text part
EndsWithModelText(h) ==
  Len(h) > 0 /\ h[Len(h)].role = "model" /\ TextPartIndexes(h[Len(h)]) # {}

\* C9 as stated (SpecStore): appendAssistantText(id, a) then
\* appendAssistantText(id, b) leaves exactly one new model element with text
\* a followed by b, for every pair of texts and every prior history.
C9_Original == [][TwoAppends => OneNewModelElement]_vars

\* C9 as amended (SpecStore): the same, for every prior history that does not
\* end with a model element holding a text part.
C9_HistoryMerge ==
  [][ (TwoAppends /\ ~EndsWithModelText(last.before[last.sessionId].contents))
        => OneNewModelElement ]_vars

C9_Witness ==
  /\ last.method = "addAssistantMessage"
  /\ last.arg = <<"b">>
  /\ HasSession(last.before, last.sessionId)
  /\ last.before[last.sessionId].contents =
       << [role |-> "user", parts |-> << [text |-> <<"u">>] >>],
          [role |-> "model", parts |-> << [text |-> <<"a">>] >>] >>
  /\ sessions[last.sessionId].contents =
       << [role |-> "user", parts |-> << [text |-> <<"u">>] >>],
          [role |-> "model", parts |-> << [text |-> <<"a", "b">>] >>] >>

\* ---------------------------------------------------------------- C10
\* C10 (SpecStore): addToolResult on an existing session appends exactly one
\* user element whose single part is a function response with the call id and
\* tool name, and whose response body is {output: result} for a string
\* result and the result itself for an object; nothing else changes.
C10_Step ==
  (last'.method = "addToolResult" /\ HasSession(sessions, last'.sessionId))
    => LET sid == last'.sessionId
           p == last'.arg
           h == sessions[sid].contents
           h2 == sessions'[sid].contents
       IN /\ Len(h2) = Len(h) + 1
          /\ SubSeq(h2, 1, Len(h)) = h
          /\ h2[Len(h2)].role = "user"
          /\ Len(h2[Len(h2)].parts) = 1
          /\ DOMAIN h2[Len(h2)].parts[1] = {"functionResponse"}
          /\ h2[Len(h2)].parts[1].functionResponse.id = p.callId
          /\ h2[Len(h2)].parts[1].functionResponse.name = p.name
          /\ (p.result.typeof = "string"
                => h2[Len(h2)].parts[1].functionResponse.response
                     = [output |-> p.result.value])
          /\ (p.result.typeof = "object"
                => h2[Len(h2)].parts[1].functionResponse.response = p.result.value)
          /\ sessions' = [sessions EXCEPT ![sid].contents = h2]

C10_ToolResultNormalization == [][C10_Step]_vars

C10_Witness ==
  /\ last.method = "addToolResult"
  /\ HasSession(sessions, last.sessionId)
  /\ last.arg.result.typeof = "string"
  /\ LET h == sessions[last.sessionId].contents
     IN /\ Len(h) = Len(last.before[last.sessionId].contents) + 1
        /\ h[Len(h)].parts[1].functionResponse.response = [output |-> <<"o">>]

\* ---------------------------------------------------------------- C11
\* a line whose method is one of the five gated by the handshake is handled
GatedMethods == {"newSession", "prompt", "toolResult", "cancel", "shutdown"}

\* C11 (SpecFront): while initialize has not completed, a newSession, prompt,
\* toolResult, cancel or shutdown request is answered with the single error
\* -32002 and changes neither the Session Store nor the process.
C11_Step ==
  (~initialized /\ last'.method \in GatedMethods)
    => /\ Len(last'.out) = 1
       /\ IsErrorResponse(last'.out[1])
       /\ last'.out[1].error.code = ERR_NOT_INITIALIZED
       /\ sessions' = sessions
       /\ aborted' = aborted
       /\ exited' = exited

C11_GatedBeforeInitialize == [][C11_Step]_vars

\* ---------------------------------------------------------------- C12
\* C12 (Spec): newSession is answered -32002 before initialization, -32001
\* when initialized without an authenticated backend, and otherwise adds
\* exactly one session with empty history and no handle and returns its id;
\* a rejected newSession leaves the store as it was.
C12_Step ==
  (last'.method = "newSession")
    => /\ Len(last'.out) = 1
       /\ IF ~initialized
          THEN /\ IsErrorResponse(last'.out[1])
               /\ last'.out[1].error.code = ERR_NOT_INITIALIZED
               /\ sessions' = sessions
          ELSE IF ~antigravityClient
          THEN /\ IsErrorResponse(last'.out[1])
               /\ last'.out[1].error.code = ERR_APP
               /\ last'.out[1].error.code # ERR_NOT_INITIALIZED
               /\ sessions' = sessions
          ELSE /\ IsResultResponse(last'.out[1])
               /\ LET id == last'.out[1].result.sessionId
                  IN /\ id \notin DOMAIN sessions
                     /\ DOMAIN sessions' = DOMAIN sessions \cup {id}
                     /\ \A i \in DOMAIN sessions : sessions'[i] = sessions[i]
                     /\ sessions'[id].id = id
                     /\ sessions'[id].contents = << >>
                     /\ sessions'[id].abortController = Null

C13_Step ==
  /\ (\E i \in 1..Len(last'.out) :
        /\ IsErrorResponse(last'.out[i])
        /\ last'.out[i].error.code = ERR_NOT_INITIALIZED)
       => ~initialized
  /\ (/\ last'.method \in {"prompt", "toolResult"}
      /\ initialized
      /\ ~antigravityClient)
       => /\ Len(last'.out) = 1
          /\ IsErrorResponse(last'.out[1])
          /\ last'.out[1].error.code = ERR_APP

C13_NotInitializedOnlyBeforeInitialize == [][C13_Step]_vars

\* ---------------------------------------------------------------- C14
\* everything but the record of the last step
StateBut_last ==
  << options, initialized, antigravityClient, sessions, aborted, turns, initLoading,
     pendingRequests, closing, exited, nextSession, nextTurn, storeOps >>

\* the step writes exactly one line, the parse error, and leaves every other
\* part of the state as it was, so the lines after it are handled as if it
\* had not been received
OneParseErrorOnly ==
  /\ Len(last'.out) = 1
  /\ IsErrorResponse(last'.out[1])
  /\ last'.out[1].error.code = ERR_PARSE
  /\ StateBut_last' = StateBut_last

\* C14 as stated (SpecFront): every inbound line that is not valid JSON, a
\* blank one included, yields exactly one -32700 response and changes
\* nothing else.
C14_Original ==
  [][(last'.method \in {"malformed", "blank"}) => OneParseErrorOnly]_vars

\* C14 as amended (SpecFront): every inbound line that is not blank and is
\* not valid JSON yields exactly one -32700 response and changes nothing else.
C14_MalformedLine ==
  [][(last'.method = "malformed") => OneParseErrorOnly]_vars

\* a malformed line was answered while a turn was in flight on a session
C14_Witness ==
  /\ last.method = "malformed"
  /\ Len(last.out) = 1
  /\ last.out[1].error.code = ERR_PARSE
  /\ initialized
  /\ turns # << >>
  /\ sessions # NoSessions

\* ---------------------------------------------------------------- C15
\* C15 (SpecFront): an error -32700 is written only for a line that is not
\* valid JSON; a request that parses and whose handler fails is never
\* answered with -32700.
C15_Step ==
  (\E i \in 1..Len(last'.out) :
      /\ IsErrorResponse(last'.out[i])
      /\ last'.out[i].error.code = ERR_PARSE)
    => last'.method = "malformed"

C15_ParseErrorOnlyForMalformed == [][C15_Step]_vars

\* ---------------------------------------------------------------- C16
\* C16 (Spec): a cancel request is answered with exactly one success result
\* {cancelled: bool}, never an error, and cancelled is false exactly when the
\* session is absent or its handle is none.
C16_Step ==
  (last'.method = "cancel")
    => /\ Len(last'.out) = 1
       /\ IsResultResponse(last'.out[1])
       /\ ~IsErrorResponse(last'.out[1])
       /\ DOMAIN last'.out[1].result = {"cancelled"}
       /\ last'.out[1].result.cancelled \in BOOLEAN
       /\ (last'.out[1].result.cancelled = FALSE)
            <=> (\/ ~HasSession(sessions, last'.sessionId)
                 \/ sessions[last'.sessionId].abortController = Null)

HandlersInFlight == Cardinality(DOMAIN turns) + initLoading

\* while the process runs, the in-flight counter is the number of handlers
\* in flight
CounterExact == ~exited => pendingRequests = HandlersInFlight

\* the step in which the end-of-input teardown fires
Teardown == closing' /\ exited' /\ ~exited

\* C17 (SpecFront): the in-flight counter equals the number of handlers
\* started and not finished, and the end-of-input teardown (store cleared,
\* process exited) fires only in a step that leaves no handler in flight and
\* the counter at zero.
C17_Step ==
  /\ CounterExact
  /\ CounterExact'
  /\ Teardown => /\ HandlersInFlight' = 0
                 /\ pendingRequests' = 0
                 /\ sessions' = NoSessions

C17_TeardownWhenIdle == [][C17_Step]_vars

\* the teardown fired when the last handler in flight returned after end of input
C17_Witness ==
  /\ exited
  /\ closing
  /\ last.phase = "return"
  /\ last.turn # Null
  /\ pendingRequests = 0
  /\ sessions = NoSessions

\* ---------------------------------------------------------------- C18
\* C18 (SpecClose): once the transport has reached end of input, and
\* every handler in flight eventually finishes, the process eventually has
\* cleared the Session Store and exited.
C18_EventuallyExits == closing ~> (exited /\ sessions = NoSessions)

\* end of input arrived while a turn awaited the backend; the call ended and
\* the process exited
C18_Witness ==
  /\ closing
  /\ exited
  /\ sessions = NoSessions
  /\ last.method \in {"prompt", "toolResult"}
  /\ last.phase = "return"
  /\ last.outcome = "response"

\* ---------------------------------------------------------------- C19
\* the controllers that are live: created by a turn still in flight and not
\* aborted
LiveHandles == DOMAIN turns \ aborted

\* C19 (SpecFront): shutdown aborts every live cancellation handle and
\* removes every session before it writes its acknowledgement, the only line
\* of the step; the process has then exited and writes nothing more.
C19_Step ==
  /\ (last'.method = "shutdown")
       => /\ LiveHandles \subseteq aborted'
          /\ sessions' = NoSessions
          /\ last'.out = << ResultResponse(last'.id, EmptyObject) >>
          /\ exited'
  /\ exited => last' = last

C19_ShutdownAbortsAll == [][C19_Step]_vars

\* ---------------------------------------------------------------- C20
\* C20 (SpecStore): after any clear() no id that existed before is found,
\* and a clear() on the already empty store leaves the store empty and
\* aborts nothing.
C20_Step ==
  (last'.method = "clear")
    => /\ \A id \in DOMAIN sessions : ~HasSession(sessions', id)
       /\ sessions' = NoSessions
       /\ (sessions = NoSessions) => aborted' = aborted

C20_ClearIdempotent == [][C20_Step]_vars

\* a clear() on a store that an earlier clear() had emptied
C20_Witness ==
  /\ last.method = "clear"
  /\ last.before = NoSessions
  /\ nextSession > 0
  /\ sessions = NoSessions
  /\ aborted = last.abortedBefore

\* ---------------------------------------------------------------- C21
\* the Session Store's mutations
StoreMutations ==
  { "addUserMessage", "addAssistantMessage", "addToolCall", "addToolResult",
    "setAbortController", "cancelSession" }

\* C21 (SpecStore): a mutation called with an id that is not in the store
\* completes, changes neither a session nor a controller, adds no session
\* for that id, and cancel reports false; the id is still not found.
C21_Step ==
  (last'.method \in StoreMutations /\ ~HasSession(sessions, last'.sessionId))
    => /\ sessions' = sessions
       /\ aborted' = aborted
       /\ ~HasSession(sessions', last'.sessionId)
       /\ last'.ret = FALSE

C21_AbsentSessionIgnored == [][C21_Step]_vars

\* a tool result was addressed to an unknown id while the store held a session
C21_Witness ==
  /\ last.method = "addToolResult"
  /\ ~HasSession(last.before, last.sessionId)
  /\ last.before # NoSessions
  /\ sessions = last.before

\* ---------------------------------------------------------------- C22
\* the notifications the events from the i-th on give, event after event
RECURSIVE NotesOfEvents(_, _, _, _)
NotesOfEvents(adapter, sessionId, events, i) ==
  IF i > Len(events) THEN << >>
  ELSE LET ev == processEvent(adapter, sessionId, events[i])
       IN ev.notes \o NotesOfEvents(ev.adapter, sessionId, events, i + 1)

\* what a part shows of itself in the update made from it
PartMark(part) ==
  IF IsThoughtPart(part)
  THEN << "agent_thought_chunk", IF "text" \in DOMAIN part THEN part.text ELSE EmptyText >>
  ELSE IF IsMessagePart(part) THEN << "agent_message_chunk", part.text >>
  ELSE << "tool_call", part.functionCall.name >>

UpdateMark(note) ==
  LET update == note.params.update
  IN IF update.kind = "tool_call" THEN << "tool_call", update.tool.name >>
     ELSE << update.type, update.chunk >>

\* the parts of a body that give an update, in stream order
RECURSIVE CandidateParts(_, _)
CandidateParts(candidates, i) ==
  IF i > Len(candidates) THEN << >>
  ELSE SelectSeq(candidates[i].parts,
                 LAMBDA p : IsThoughtPart(p) \/ IsMessagePart(p) \/ IsCallPart(p))
       \o CandidateParts(candidates, i + 1)

RECURSIVE EventParts(_, _)
EventParts(events, i) ==
  IF i > Len(events) THEN << >>
  ELSE CandidateParts(events[i].candidates, 1) \o EventParts(events, i + 1)

Front(seq) == SubSeq(seq, 1, Len(seq) - 1)

\* C22 (SpecTurn): the lines a turn writes are the notifications of its first
\* event, then those of its second event, and so on, the updates made from
\* parts following the order of the parts, and the turn's response (result or
\* error) is the last line.
C22_Step ==
  TurnReturnsNow =>
    LET out == last'.out
        notes == Front(out)
        fromParts == SelectSeq(notes, LAMBDA n : n.params.update.kind # "finish"
                                                 /\ n.params.update.kind # "error")
        parts == EventParts(last'.body.events, 1)
    IN /\ Len(out) >= 1
       /\ IsResponse(out[Len(out)])
       /\ \A i \in 1..Len(notes) : IsNotification(notes[i])
       /\ notes = NotesOfEvents(NewAdapter, last'.sessionId, last'.body.events, 1)
       /\ Len(fromParts) = Len(parts)
       /\ \A i \in 1..Len(parts) : UpdateMark(fromParts[i]) = PartMark(parts[i])

C22_NotificationOrder == [][C22_Step]_vars

\* a turn wrote the notifications of an event and then failed
C22_Witness ==
  /\ last.phase = "return"
  /\ last.turn # Null
  /\ Len(last.body.events) >= 1
  /\ last.body.error = "Error"
  /\ Len(last.out) >= 2
  /\ IsErrorResponse(last.out[Len(last.out)])

\* ------------------------------------------ the stream adapter on its own
\* One adapter, made by createStreamAdapter, is handed the events of one turn
\* by processEvent.  `last` records the call: the adapter after it, the events
\* handed over so far, the notifications of the last call and those of all
\* calls.
MaxEvents == 2

AdapterSession == 1

TextFalseW == [text |-> <<"w">>, thought |-> FALSE]
TextEmpty == [text |-> EmptyText]
ThoughtNoText == [thought |-> TRUE]

Candidate(parts, finishReason) == [parts |-> parts, finishReason |-> finishReason]

\* finishReason of a candidate; "" stands for a candidate without one
FinishReasons == { "", "STOP", "TOOL_USE", "SAFETY", "MAX_TOKENS", "RECITATION" }

AdapterEvents ==
  { Event(parts, f) : parts \in { << >>, << TextX >> }, f \in FinishReasons }
  \cup { Event(parts, "") :
           parts \in { << ThoughtZ >>, << TextFalseW >>, << TextEmpty >>, << Call1 >>,
                       << ThoughtNoText >>, << TextX, TextY >>, << ThoughtZ, TextX >>,
                       << TextX, ThoughtZ >>, << ThoughtZ, ThoughtZ >>,
                       << TextX, Call1 >>, << ThoughtZ, TextX, ThoughtZ >> } }
  \cup { Event(<< ThoughtZ, TextX >>, "STOP"), Event(<< Call1 >>, "TOOL_USE"),
         [candidates |-> << Candidate(<< TextX >>, "STOP"),
                            Candidate(<< TextY >>, "MAX_TOKENS") >>],
         [candidates |-> << Candidate(<< >>, "STOP"), Candidate(<< TextX >>, "") >>],
         [candidates |-> << >>] }

AdapterStep(method, adapter, events, notes, written) ==
  [ method |-> method, sessionId |-> AdapterSession, adapter |-> adapter,
    events |-> events, notes |-> notes, written |-> written ]

InitAdapter ==
  /\ options = [auth |-> FALSE]
  /\ initialized = FALSE
  /\ antigravityClient = FALSE
  /\ sessions = NoSessions
  /\ aborted = {}
  /\ turns = [t \in {} |-> 0]
  /\ initLoading = 0
  /\ pendingRequests = 0
  /\ closing = FALSE
  /\ exited = FALSE
  /\ nextSession = 0
  /\ nextTurn = 0
  /\ storeOps = 0
  /\ last = AdapterStep("createStreamAdapter", NewAdapter, << >>, << >>, << >>)

\* adapter.processEvent(event)
AdapterProcessEvent(event) ==
  LET ev == processEvent(last.adapter, AdapterSession, event)
  IN /\ Len(last.events) < MaxEvents
     /\ last' = AdapterStep("processEvent", ev.adapter, Append(last.events, event),
                            ev.notes, last.written \o ev.notes)
     /\ UNCHANGED << options, initialized, antigravityClient, sessions, aborted, turns,
                     initLoading, pendingRequests, closing, exited, nextSession,
                     nextTurn, storeOps >>

NextAdapter == \E event \in AdapterEvents : AdapterProcessEvent(event)

SpecAdapter == InitAdapter /\ [][NextAdapter]_vars

\* ---------------------------------------------------------------- C23
\* the terminal update each finish marker stands for
TerminalUpdates(sessionId, finishReason) ==
  CASE finishReason = "STOP" ->
         << createNotification(sessionId, createSessionComplete("end_turn")) >>
    [] finishReason = "TOOL_USE" ->
         << createNotification(sessionId, createSessionComplete("tool_use")) >>
    [] finishReason = "SAFETY" ->
         << createNotification(sessionId,
              [ type |-> "session_error", kind |-> "error",
                error |-> [code |-> "SAFETY_BLOCK",
                           message |-> "Content blocked by safety filters"] ]) >>
    [] finishReason = "MAX_TOKENS" ->
         << createNotification(sessionId, createSessionComplete("max_tokens")) >>
    [] OTHER -> << >>

\* the updates of the parts of each candidate, each followed by the terminal
\* update of the candidate's finish marker
RECURSIVE WithTerminals(_, _, _, _)
WithTerminals(adapter, sessionId, candidates, i) ==
  IF i > Len(candidates) THEN << >>
  ELSE LET after == ProcessParts([adapter |-> adapter, notes |-> << >>], sessionId,
                                 candidates[i].parts, 1)
       IN after.notes \o TerminalUpdates(sessionId, candidates[i].finishReason)
          \o WithTerminals(after.adapter, sessionId, candidates, i + 1)

AdapterCall == last'.method = "processEvent"

LastEvent == last'.events[Len(last'.events)]

\* C23 (SpecAdapter): processEvent returns, for every candidate of the event,
\* the updates of its parts followed by the one terminal update of its finish
\* marker (none for another or an absent marker), also when the candidate has
\* no parts.
C23_Step ==
  AdapterCall =>
    last'.notes = WithTerminals(last.adapter, AdapterSession, LastEvent.candidates, 1)

C23_FinishMarker == [][C23_Step]_vars

\* ---------------------------------------------------------------- C24
\* the parts of the candidates from the i-th on, in order
RECURSIVE PartsOfCandidates(_, _)
PartsOfCandidates(candidates, i) ==
  IF i > Len(candidates) THEN << >>
  ELSE candidates[i].parts \o PartsOfCandidates(candidates, i + 1)

RECURSIVE PartsOfEvents(_, _)
PartsOfEvents(events, i) ==
  IF i > Len(events) THEN << >>
  ELSE PartsOfCandidates(events[i].candidates, 1) \o PartsOfEvents(events, i + 1)

RECURSIVE ConcatTexts(_, _)
ConcatTexts(parts, i) ==
  IF i > Len(parts) THEN EmptyText ELSE parts[i].text \o ConcatTexts(parts, i + 1)

\* a non-empty text part that is not thought-marked: flag absent or false
IsPlainTextPart(part) ==
  /\ "text" \in DOMAIN part
  /\ part.text # EmptyText
  /\ ~("thought" \in DOMAIN part /\ part.thought)

\* every part handed to the adapter so far, in stream order
AllParts(events) == PartsOfEvents(events, 1)

\* C24 (SpecAdapter): the message chunks written so far carry, one each and in
\* order, the texts of the non-empty text parts that are not thought-marked
\* (flag absent or false), and the accumulated text is their concatenation.
C24_PlainTextAccumulated ==
  LET plain == SelectSeq(AllParts(last.events), IsPlainTextPart)
      chunks == SelectSeq(last.written,
                          LAMBDA n : n.params.update.type = "agent_message_chunk")
  IN /\ Len(chunks) = Len(plain)
     /\ \A i \in 1..Len(plain) : chunks[i].params.update.chunk = plain[i].text
     /\ getAccumulatedText(last.adapter) = ConcatTexts(plain, 1)

\* ---------------------------------------------------------------- C25
\* a part marked as thought
IsMarkedThought(part) == "thought" \in DOMAIN part /\ part.thought = TRUE

ThoughtChunks(notes) ==
  SelectSeq(notes, LAMBDA n : n.params.update.type = "agent_thought_chunk")

\* the characters of the thought texts of the stream
ThoughtCharacters ==
  { AllParts(last.events)[i].text[j] :
      <<i, j>> \in { ij \in (1..Len(AllParts(last.events))) \X (1..1) :
                       /\ IsMarkedThought(AllParts(last.events)[ij[1]])
                       /\ "text" \in DOMAIN AllParts(last.events)[ij[1]] } }

\* C25 (SpecAdapter): the thought chunks written so far carry, one each and in
\* order, the literal texts of the thought-marked parts, and no thought text
\* is in the accumulated text (the only text a turn commits to history).
C25_ThoughtNotAccumulated ==
  LET thoughts == SelectSeq(AllParts(last.events), IsMarkedThought)
      chunks == ThoughtChunks(last.written)
      text == getAccumulatedText(last.adapter)
  IN /\ Len(chunks) = Len(thoughts)
     /\ \A i \in 1..Len(thoughts) :
          chunks[i].params.update.chunk =
            (IF "text" \in DOMAIN thoughts[i] THEN thoughts[i].text ELSE EmptyText)
     /\ \A i \in 1..Len(text) : text[i] \notin ThoughtCharacters

\* thought parts and text parts were handed over, the text is accumulated
C25_Witness ==
  /\ last.method = "processEvent"
  /\ Len(ThoughtChunks(last.written)) >= 2
  /\ getAccumulatedText(last.adapter) # EmptyText
  /\ ThoughtCharacters # {}

\* ---------------------------------------------------------------- C26
\* C26 (SpecAdapter): all thought chunks written in one turn carry the same
\* thoughtId, whatever else the turn writes.
C26_StableThoughtId ==
  \A i, j \in 1..Len(ThoughtChunks(last.written)) :
    ThoughtChunks(last.written)[i].params.update.thoughtId
      = ThoughtChunks(last.written)[j].params.update.thoughtId

\* ---------------------------------------------------------------- C27
MessageChunks(notes) ==
  SelectSeq(notes, LAMBDA n : n.params.update.type = "agent_message_chunk")

\* C27 (SpecAdapter): the message chunks written in one turn carry the indices
\* 0, 1, 2, ... and so do the thought chunks, each kind counted on its own.
C27_SeparateIndices ==
  /\ \A i \in 1..Len(MessageChunks(last.written)) :
       MessageChunks(last.written)[i].params.update.index = i - 1
  /\ \A i \in 1..Len(ThoughtChunks(last.written)) :
       ThoughtChunks(last.written)[i].params.update.index = i - 1

\* ------------------------------------------------- prompts of every shape
\* One turn at a time, on every shape of params.messages: no message, empty
\* contents, other roles only, mixed roles, an array of content blocks.
MaxPromptTurns == 1

PromptMessageLists ==
  { << >>,
    << UserMessage(EmptyText) >>,
    << AssistantMessage(<<"q">>) >>,
    << UserMessage(EmptyText), UserMessage(EmptyText) >>,
    << UserMessage(<<"h">>), AssistantMessage(<<"q">>), UserMessage(<<"i">>) >>,
    << [role |-> "user",
        content |-> BlocksContent(<< [type |-> "text", text |-> <<"k">>] >>)],
       UserMessage(<<"h">>) >> }

PromptInputs ==
  [CoreInputs EXCEPT !.messages = PromptMessageLists, !.bodies = CloseBodies,
                     !.maxTurns = MaxPromptTurns]

NextPrompt == NextOf(PromptInputs)

SpecPrompt == Init /\ [][NextPrompt]_vars

\* ---------------------------------------------------------------- C28
\* the contents of the user-role messages from the i-th message on, as text
RECURSIVE UserContents(_, _)
UserContents(messages, i) ==
  IF i > Len(messages) THEN << >>
  ELSE (IF messages[i].role = "user"
        THEN << ContentText(messages[i].content) >> ELSE << >>)
       \o UserContents(messages, i + 1)

\* texts[1], then a newline and the next text for every further text
RECURSIVE NewlineJoined(_, _)
NewlineJoined(texts, n) ==
  IF n = 0 THEN EmptyText
  ELSE IF n = 1 THEN texts[1]
  ELSE NewlineJoined(texts, n - 1) \o <<"\n">> \o texts[n]

PromptStarts == TurnArrives /\ last'.method = "prompt" /\ last'.phase = "await"

\* C28 (SpecPrompt): a prompt on an existing session appends to the history one
\* user element holding the newline-joined contents of its user-role messages
\* when that text is not empty and nothing when it is empty, and starts the
\* backend call in both cases.
C28_Step ==
  PromptStarts =>
    LET t == last'.turn
        sid == last'.sessionId
        texts == UserContents(turns'[t].params.messages, 1)
        text == NewlineJoined(texts, Len(texts))
    IN /\ text # EmptyText =>
            sessions'[sid].contents =
              Append(sessions[sid].contents,
                     [role |-> "user", parts |-> << [text |-> text] >>])
       /\ text = EmptyText => sessions'[sid].contents = sessions[sid].contents
       /\ turns'[t].pc = "token"

C28_UserText == [][C28_Step]_vars

\* a prompt with messages of both roles started its backend call
C28_Witness ==
  /\ last.method = "prompt"
  /\ last.phase = "await"
  /\ last.turn \in DOMAIN turns
  /\ turns[last.turn].pc = "token"
  /\ \E i \in 1..Len(turns[last.turn].params.messages) :
       turns[last.turn].params.messages[i].role = "assistant"
  /\ turns[last.turn].input = <<"h", "\n", "i">>
  /\ getContents(sessions, last.sessionId)
       = << [role |-> "user", parts |-> << [text |-> <<"h", "\n", "i">>] >>] >>

\* ------------------------------------------- sessions of every configuration
\* Turns that overlap on sessions made with and without a model, a system
\* instruction and a catalogue of their own.
MaxRequestTurns == 2

RequestInputs ==
  [CoreInputs EXCEPT !.configs = Configs, !.maxTurns = MaxRequestTurns]

NextRequest == NextOf(RequestInputs)

SpecRequest == Init /\ [][NextRequest]_vars

\* ---------------------------------------------------------------- C29
FetchCalled == last'.request # NoRequest

DeclaredNames(request) ==
  [i \in 1..Len(request.request.tools[1].functionDeclarations) |->
     request.request.tools[1].functionDeclarations[i].name]

\* C29 (SpecRequest): the request a turn hands to fetch carries the session's
\* model, its system instruction if it has one, the history as the turn's own
\* first step left it, and as tools the session's catalogue if that is not
\* empty and the default catalogue otherwise.
C29_Step ==
  /\ TurnArrives /\ last'.phase = "await" =>
       turns'[last'.turn].opts.contents = sessions'[last'.sessionId].contents
  /\ FetchCalled =>
       LET session == sessions[last'.sessionId]
           request == last'.request
       IN /\ request.model = session.model
          /\ IF session.systemInstruction # EmptyText
             THEN /\ "systemInstruction" \in DOMAIN request.request
                  /\ request.request.systemInstruction
                       = [parts |-> << [text |-> session.systemInstruction] >>]
             ELSE "systemInstruction" \notin DOMAIN request.request
          /\ request.request.contents = turns[last'.turn].opts.contents
          /\ "tools" \in DOMAIN request.request
          /\ Len(request.request.tools) = 1
          /\ DeclaredNames(request)
               = (IF Len(session.tools) > 0 THEN session.tools ELSE ACP_TOOLS)

C29_BackendRequest == [][C29_Step]_vars

\* ---------------------------------------------------------------- C30
ToolCallNotes(notes) == SelectSeq(notes, LAMBDA n : n.params.update.kind = "tool_call")

\* the tool calls a history holds, in order
RECURSIVE HistoryCalls(_, _)
HistoryCalls(contents, i) ==
  IF i > Len(contents) THEN << >>
  ELSE SelectSeq(contents[i].parts, LAMBDA p : "functionCall" \in DOMAIN p)
       \o HistoryCalls(contents, i + 1)

\* C30 (SpecTurn): the result of a turn lists as pending the call id and tool
\* name of every tool_call notification the turn wrote, in the order written,
\* and has no pending field when it wrote none; each of these calls was added
\* to the session's history, in the same order.
C30_Step ==
  (TurnReturnsNow /\ IsResultResponse(last'.out[Len(last'.out)])) =>
    LET sid == last'.sessionId
        calls == ToolCallNotes(Front(last'.out))
        result == last'.out[Len(last'.out)].result
    IN /\ IF Len(calls) > 0
          THEN /\ "pending" \in DOMAIN result
               /\ result.pending =
                    [i \in 1..Len(calls) |->
                       [id |-> calls[i].params.update.callId,
                        name |-> calls[i].params.update.tool.name]]
          ELSE "pending" \notin DOMAIN result
       /\ HistoryCalls(sessions'[sid].contents, 1) =
            HistoryCalls(sessions[sid].contents, 1)
            \o [i \in 1..Len(calls) |->
                  [functionCall |-> [name |-> calls[i].params.update.tool.name,
                                     args |-> calls[i].params.update.input,
                                     id |-> calls[i].params.update.callId]]]

C30_PendingList == [][C30_Step]_vars

\* a turn that wrote three tool calls over two events returned its result
C30_Witness ==
  /\ last.phase = "return"
  /\ last.turn # Null
  /\ Len(last.body.events) = 2
  /\ Len(ToolCallNotes(Front(last.out))) = 3
  /\ IsResultResponse(last.out[Len(last.out)])
  /\ Len(last.out[Len(last.out)].result.pending) = 3

\* ------------------------------------------------ streams that finish twice
\* One turn at a time on streams whose finish markers come once, twice (in two
\* events or in two candidates of one event), before the last text, or
\* together with a tool call.
MaxCommitTurns == 1

CommitBodies ==
  { Body(<< Event(<< TextX >>, "STOP") >>, "none", ""),
    Body(<< Event(<< TextX >>, ""), Event(<< TextY >>, "STOP") >>, "none", ""),
    Body(<< Event(<< TextX >>, "STOP"), Event(<< TextY >>, "STOP") >>, "none", ""),
    Body(<< [candidates |-> << Candidate(<< TextX >>, "STOP"),
                               Candidate(<< TextY >>, "STOP") >>] >>, "none", ""),
    Body(<< Event(<< TextX >>, "MAX_TOKENS"), Event(<< TextY >>, "") >>, "none", ""),
    Body(<< Event(<< TextX, Call1 >>, "TOOL_USE") >>, "none", ""),
    Body(<< Event(<< Call1, TextX >>, "TOOL_USE") >>, "none", ""),
    Body(<< Event(<< TextX >>, "STOP") >>, "Error", "bad item"),
    Body(<< Event(<< TextX, Call1 >>, "") >>, "Error", "bad item"),
    Body(<< >>, "Error", "API error 500") }

CommitInputs ==
  [CoreInputs EXCEPT !.messages = { << >>, << UserMessage(<<"h", "i">>) >> },
                     !.bodies = CommitBodies, !.maxTurns = MaxCommitTurns]

NextCommit == NextOf(CommitInputs)

SpecCommit == Init /\ [][NextCommit]_vars

\* ---------------------------------------------------------------- C31
\* the text of the model elements of a history, in order
RECURSIVE ModelText(_, _)
ModelText(contents, i) ==
  IF i > Len(contents) THEN EmptyText
  ELSE (IF contents[i].role = "model"
        THEN ConcatTexts(SelectSeq(contents[i].parts, IsTextPart), 1)
        ELSE EmptyText)
       \o ModelText(contents, i + 1)

ChunkTexts(notes) ==
  ConcatTexts([i \in 1..Len(MessageChunks(notes)) |->
                 [text |-> MessageChunks(notes)[i].params.update.chunk]], 1)

TurnCompletes(notes) ==
  \E i \in 1..Len(notes) : notes[i].params.update.type = "session_complete"

\* C31 (SpecCommit): a turn that wrote at least one session_complete update
\* adds to the history's model text exactly the chunk texts of the message
\* chunks it wrote, in order, each once.
C31_Step ==
  (TurnReturnsNow /\ TurnCompletes(Front(last'.out))) =>
    ModelText(sessions'[last'.sessionId].contents, 1)
      = ModelText(sessions[last'.sessionId].contents, 1) \o ChunkTexts(Front(last'.out))

C31_TextCommittedOnce == [][C31_Step]_vars

\* ---------------------------------------------------------------- C32
\* C32 (SpecCommit): no session's history holds two model elements in a row.
C32_NoConsecutiveModelElements ==
  \A sid \in DOMAIN sessions :
    \A i \in 1..(Len(sessions[sid].contents) - 1) :
      ~(sessions[sid].contents[i].role = "model"
        /\ sessions[sid].contents[i + 1].role = "model")

\* ---------------------------------------------------------------- C33
\* the history ends with a model element made of plain text parts only
EndsWithPureModelText(h) ==
  /\ Len(h) > 0
  /\ h[Len(h)].role = "model"
  /\ Len(h[Len(h)].parts) > 0
  /\ \A i \in 1..Len(h[Len(h)].parts) : IsTextPart(h[Len(h)].parts[i])

\* C33 (SpecStore): addAssistantMessage on an existing session appends the
\* text to the trailing element when that is a model element of plain text
\* only, and in every other case (a trailing model element with a tool call,
\* a trailing element of another role, an empty history) appends a new model
\* element holding the text.
C33_Step ==
  (last'.method = "addAssistantMessage" /\ HasSession(sessions, last'.sessionId)) =>
    LET h == sessions[last'.sessionId].contents
        h2 == sessions'[last'.sessionId].contents
    IN IF EndsWithPureModelText(h)
       THEN h2 = [h EXCEPT ![Len(h)].parts[1].text = @ \o last'.arg]
       ELSE h2 = Append(h, [role |-> "model", parts |-> << [text |-> last'.arg] >>])

C33_AppendAssistantText == [][C33_Step]_vars

\* ---------------------------------------------------------------- C34
IsPrefix(a, b) == Len(a) <= Len(b) /\ SubSeq(b, 1, Len(a)) = a

\* the element e2 is e with more text in one text part or one more tool call
ExtendsElement(e, e2) ==
  /\ e2.role = e.role
  /\ \/ /\ Len(e2.parts) = Len(e.parts) + 1
        /\ SubSeq(e2.parts, 1, Len(e.parts)) = e.parts
        /\ IsCallPart(e2.parts[Len(e2.parts)])
     \/ /\ Len(e2.parts) = Len(e.parts)
        /\ \E i \in 1..Len(e.parts) :
             /\ IsTextPart(e.parts[i])
             /\ IsTextPart(e2.parts[i])
             /\ IsPrefix(e.parts[i].text, e2.parts[i].text)
             /\ \A j \in 1..Len(e.parts) : j # i => e2.parts[j] = e.parts[j]

\* the history h2 is h unchanged, h with one element more, or h with its
\* last element extended
GrowsByOne(h, h2) ==
  \/ h2 = h
  \/ Len(h2) = Len(h) + 1 /\ SubSeq(h2, 1, Len(h)) = h
  \/ /\ Len(h2) = Len(h)
     /\ Len(h) > 0
     /\ SubSeq(h2, 1, Len(h) - 1) = SubSeq(h, 1, Len(h) - 1)
     /\ ExtendsElement(h[Len(h)], h2[Len(h)])

\* C34 (SpecStore): every store operation leaves the history of every
\* session it keeps unchanged, one element longer, or with its last element
\* extended; the elements before the last are never touched.
C34_Step ==
  \A sid \in DOMAIN sessions \cap DOMAIN sessions' :
    GrowsByOne(sessions[sid].contents, sessions'[sid].contents)

C34_HistoryOnlyGrows == [][C34_Step]_vars

\* a tool call was added to the last of two elements
C34_Witness ==
  /\ last.method = "addToolCall"
  /\ HasSession(last.before, last.sessionId)
  /\ HasSession(sessions, last.sessionId)
  /\ Len(sessions[last.sessionId].contents) = 2
  /\ Len(last.before[last.sessionId].contents) = 2
  /\ sessions[last.sessionId].contents[1] = last.before[last.sessionId].contents[1]
  /\ Len(sessions[last.sessionId].contents[2].parts) = 2

\* ------------------------------------------------------------ two sessions
\* Turns on two sessions at once.
MaxPairSessions == 2

MaxPairTurns == 2

PairInputs ==
  [CoreInputs EXCEPT !.bodies = CloseBodies, !.maxSessions = MaxPairSessions,
                     !.maxTurns = MaxPairTurns]

NextPair == NextOf(PairInputs)

SpecPair == Init /\ [][NextPair]_vars
\* ---------------------------------------------------------------- C35
\* a step of a turn: its start, its token step or its return
TurnStep == last'.turn # Null

BackendFailure == TurnReturnsNow /\ last'.body.error = "Error"

\* C35 (SpecPair): a step of a turn on session A leaves every other session B
\* as it is - history and cancellation handle - and leaves B's turns in flight
\* as they are, neither advanced nor aborted nor answered; a turn that ends in
\* a backend failure writes, after its notifications, one error response with
\* code -32000 and the id of its request.
C35_Step ==
  TurnStep =>
    /\ \A B \in DOMAIN sessions \ {last'.sessionId} :
         /\ HasSession(sessions', B)
         /\ sessions'[B] = sessions[B]
         /\ \A t \in TurnsOn(turns, B) :
              /\ t \in DOMAIN turns'
              /\ turns'[t] = turns[t]
              /\ (t \in aborted') = (t \in aborted)
    /\ \A i \in 1..Len(last'.out) :
         IsResponse(last'.out[i]) => last'.out[i].id = last'.id
    /\ BackendFailure =>
         /\ Len(SelectSeq(last'.out, IsResponse)) = 1
         /\ IsErrorResponse(last'.out[Len(last'.out)])
         /\ last'.out[Len(last'.out)].error.code = ERR_INTERNAL
         /\ last'.out[Len(last'.out)].id = turns[last'.turn].id

C35_OtherSessionsUntouched == [][C35_Step]_vars

\* a turn failed on one session while another session had a turn in flight
\* and a history of its own
C35_Witness ==
  /\ last.phase = "return"
  /\ last.turn # Null
  /\ last.body.error = "Error"
  /\ \E B \in DOMAIN sessions \ {last.sessionId} :
       /\ TurnsOn(turns, B) # {}
       /\ sessions[B].abortController # Null
       /\ Len(sessions[B].contents) > 0
\* ---------------------------------------------------------------- C36
\* C36 (SpecTurn): whenever a turn returns - with a result, cancelled, or after
\* a failure - handlePrompt's and handleToolResult's code for the turn, run on
\* the store, the turn and the stream of that moment, write the same lines in
\* the same order and leave the same store.
C36_Step ==
  TurnReturnsNow =>
    RunTurn(sessions, turns[last'.turn], last'.body)
      = RunToolResultTurn(sessions, turns[last'.turn], last'.body)

C36_SameTurnForBothHandlers == [][C36_Step]_vars

\* a toolResult turn was cancelled and answered
C36_Witness ==
  /\ last.method = "toolResult"
  /\ last.phase = "return"
  /\ last.turn # Null
  /\ last.outcome = "aborted"
  /\ IsErrorResponse(last.out[Len(last.out)])
  /\ last.out[Len(last.out)].error.code = ERR_APP
\* ------------------------------------------------- turns that end pending
\* Turns that follow one another on a session whose stream asks for a tool.
MaxPendingTurns == 2

PendingBodies ==
  { Body(<< Event(<< Call1 >>, "TOOL_USE") >>, "none", ""),
    Body(<< >>, "Error", "API error 500") }

PendingInputs ==
  [CoreInputs EXCEPT !.bodies = PendingBodies, !.maxTurns = MaxPendingTurns]

NextPending == NextOf(PendingInputs)

SpecPending == Init /\ [][NextPending]_vars

\* ---------------------------------------------------------------- C37
\* the ids of the tool calls and of the tool results a history holds
CallIds(contents) ==
  { contents[i].parts[j].functionCall.id :
      <<i, j>> \in { ij \in (1..Len(contents)) \X (1..3) :
                       /\ ij[2] <= Len(contents[ij[1]].parts)
                       /\ "functionCall" \in DOMAIN contents[ij[1]].parts[ij[2]] } }

ResultIds(contents) ==
  { contents[i].parts[1].functionResponse.id :
      i \in { k \in 1..Len(contents) :
                "functionResponse" \in DOMAIN contents[k].parts[1] } }

\* the session has a tool call on record, reported as pending by a turn that
\* returned, and no result for it
HasUnansweredCall(sid) ==
  /\ HasSession(sessions, sid)
  /\ TurnsOn(turns, sid) = {}
  /\ CallIds(sessions[sid].contents) \ ResultIds(sessions[sid].contents) # {}

\* C37 (SpecPending): a prompt on a session with an unanswered pending tool
\* call does not start a backend call.
C37_Step == PromptStarts => ~HasUnansweredCall(last'.sessionId)

C37_PromptWaitsForToolResults == [][C37_Step]_vars
\* ---------------------------------------------------------------- C38
\* C38 (Spec): a session whose cancellation handle is set has a prompt or
\* toolResult turn in flight on it.
C38_HandleImpliesTurnInFlight ==
  \A sid \in DOMAIN sessions :
    sessions[sid].abortController # Null => TurnsOn(turns, sid) # {}

\* a handle is stored while two turns overlap on the session, one of them
\* begun by toolResult
C38_Witness ==
  \E sid \in DOMAIN sessions :
    /\ sessions[sid].abortController # Null
    /\ Cardinality(TurnsOn(turns, sid)) = 2
    /\ \E t \in TurnsOn(turns, sid) : turns[t].method = "toolResult"
\* ---------------------------------------------------------------- C39
\* the steps that handle a line holding a JSON-RPC request
RequestStep ==
  last'.method \in {"initialize", "newSession", "prompt", "toolResult", "cancel",
                    "shutdown", "unknown"}

Responses(out) == SelectSeq(out, IsResponse)

\* C39 (SpecFront): the step that ends the handling of a request writes exactly
\* one response and that response carries the request's id; a step that leaves
\* the request in flight writes no response.
C39_Step ==
  RequestStep =>
    IF last'.phase = "return"
    THEN /\ Len(Responses(last'.out)) = 1
         /\ Responses(last'.out)[1].id = last'.id
    ELSE Responses(last'.out) = << >>

C39_OneResponsePerRequest == [][C39_Step]_vars
\* ---------------------------------------------------------------- C40
\* the text the turn committed: at each turn-complete notification, the text of
\* the message chunks written so far
RECURSIVE CommittedText(_, _)
CommittedText(notes, i) ==
  IF i > Len(notes) THEN EmptyText
  ELSE (IF notes[i].params.update.type = "session_complete"
        THEN ChunkTexts(SubSeq(notes, 1, i))
        ELSE EmptyText)
       \o CommittedText(notes, i + 1)

TurnFails == TurnReturnsNow /\ IsErrorResponse(last'.out[Len(last'.out)])

\* C40 (SpecCommit): a turn that ends with an error response leaves the history
\* as the stream's events before the failure made it: every element that was
\* there is kept (the last one may have gained a recorded call or committed
\* text), the calls notified are recorded, the text committed at a turn-complete
\* notification stays, and chunk text that was not committed is not added.
C40_Step ==
  (TurnFails /\ HasSession(sessions', last'.sessionId)) =>
    LET sid == last'.sessionId
        h == sessions[sid].contents
        h2 == sessions'[sid].contents
        notes == Front(last'.out)
        calls == ToolCallNotes(notes)
    IN /\ Len(h2) >= Len(h)
       /\ \A i \in 1..Len(h) : h2[i] = h[i] \/ (i = Len(h) /\ h[i].role = "model")
       /\ SelectSeq(h2, LAMBDA e : e.role # "model")
            = SelectSeq(h, LAMBDA e : e.role # "model")
       /\ HistoryCalls(h2, 1) =
            HistoryCalls(h, 1)
            \o [i \in 1..Len(calls) |->
                  [functionCall |-> [name |-> calls[i].params.update.tool.name,
                                     args |-> calls[i].params.update.input,
                                     id |-> calls[i].params.update.callId]]]
       /\ ModelText(h2, 1) = ModelText(h, 1) \o CommittedText(notes, 1)

C40_FailureKeepsHistory == [][C40_Step]_vars

\* a prompt turn fails after a message chunk and a tool call were written: the
\* user text and the call are in the history, the chunk's text is not
C40_Witness ==
  /\ last.phase = "return"
  /\ last.method = "prompt"
  /\ last.body.error = "Error"
  /\ Len(last.out) = 3
  /\ HasSession(sessions, last.sessionId)
  /\ Len(sessions[last.sessionId].contents) = 2
  /\ sessions[last.sessionId].contents[1].role = "user"
  /\ HistoryCalls(sessions[last.sessionId].contents, 1) # << >>
  /\ ModelText(sessions[last.sessionId].contents, 1) = EmptyText

====
